---- MODULE Spec2Model ----
(***************************************************************************)
(* A model of the magic-api client toolkit: the path resolver of           *)
(* cli/extract_api_paths.py, the HTTP callers of cli/magic_api_client.py,  *)
(* cli/backup_manager.py and cli/magic_api_resource_manager.py, and the    *)
(* session manager those callers rely on (magicapi_tools.utils.http_client *)
(* and magicapi_tools.utils.resource_manager).                             *)
(*                                                                         *)
(* Text is modelled as a sequence of one-character strings, so "a/b" is    *)
(* <<"a", "/", "b">> and the empty text is << >>.                          *)
(***************************************************************************)
EXTENDS Integers, Sequences, FiniteSets, TLC

VARIABLES
    \* ---- path resolver (cli/extract_api_paths.py) ----
    pmode,        \* which operation this run exercises: "find" | "normalize_path" | "clean_path"
    ppc,          \* "start" | "found" | "applied"
    api_children, \* data['data']['api']['children']: the fetched tree snapshot
    target_path,  \* the caller's target path
    results,      \* the list find_api_id_by_path returns
    ninput,       \* the text the normalisation was first given
    npath,        \* the text the normalisation is applied to
    nfirst,       \* the result of its first application
    napplied,     \* how many times it was applied
    \* ---- HTTP clients built on one requests session (cli/*.py, test/*.py) ----
    ckind,        \* the client under construction: "http" | "rm" | "ws" | "backup"
    cpc,          \* "new" before the constructor ran, "ready" after
    ccreds,       \* TRUE when a username and password were configured
    csession,     \* session.headers: a function from header names to values
    cloginposts,  \* how many login requests were sent
    cloginresp,   \* the backend's answer to the login request
    ncalls,       \* how many operations were invoked on the client
    lastCall,     \* what the last operation sent and returned
    \* ---- the session manager (magicapi_tools, described in spec section 4.1) ----
    sauth,        \* settings.auth_enabled
    scli,         \* TRUE when --username/--password were given on the command line
    screds,       \* TRUE when the manager was constructed with credentials
    sstate,       \* "Unauthenticated" | "Authenticated" | "Reauthenticating" | "Failed"
    stoken,       \* the cached token: 0 when empty, else the number of the login that issued it
    sinflight,    \* the logins now at the backend
    sloginCalls,  \* how many login requests reached the backend
    svalid,       \* the tokens the backend accepts (0: requests without a token)
    sfaults,      \* TRUE once the backend refused a login or a request, or a token expired
    sresets,      \* how many times the credentials were reset
    pc,           \* each caller's position in send
    call,         \* each caller's call
    \* ---- one run of main of cli/extract_api_paths.py ----
    cli_children, \* the tree the backend (or the file) holds
    cli_cmd,      \* "path_to_id" | "path_to_detail" | "list"
    cli_arg,      \* the argument of --path-to-id / --path-to-detail
    cli_filters,  \* --method, --query, --path and --name of a listing run
    cli_pc,       \* "start" | "done" | "compared"
    api_matches,  \* what find_api_id_by_path returned to main
    variant_arg,  \* a spelling of cli_arg with other leading, trailing or repeated slashes
    variant_matches, \* what find_api_id_by_path returns for it
    api_endpoints,   \* what extract_api_endpoints returned to main
    filtered_endpoints, \* what filter_endpoints returned to main
    stdout,       \* the lines main printed
    fetched,      \* the ids main passed to fetch_file_detail
    exit_status,  \* "running" | "return" | "exit1"
    \* ---- MagicAPIClassExplorer listings (cli/extract_class_methods.py) ----
    all_items,    \* the items collected for the listing
    page,         \* --page
    page_size,    \* --page-size
    limit,        \* --limit
    pg_pc,        \* "start" | "done"
    pg_op,        \* the listing that ran
    paginated,    \* what _paginate_items returned: items, total_pages, total_items
    pg_shown,     \* the items the listing printed
    pg_message,   \* what the listing said about an empty page
    \* ---- batch operations of the resource manager CLI ----
    batch_kind,   \* "off" or the batch command on the command line
    batch_items,  \* the items of the batch file, each with the outcome its request will have
    batch_pc,     \* "start" | "running" | "reported"
    batch_next,   \* the index of the next item to attempt
    batch_attempts, \* how many requests were sent for each item
    batch_applied,  \* the items whose effect the backend applied
    batch_result, \* the aggregate: successful, failed, results
    batch_report, \* what main printed about the aggregate
    \* ---- single backend operations and their response envelopes ----
    op_count,     \* how many operations were invoked
    op_last,      \* the last operation: its name, requests, response and result
    \* ---- MagicAPIWebSocketClient and the coroutines of cli/magic_api_client.py ----
    ws_mode,      \* "off" | "listen_only" | "main_call" | "call_with_websocket"
    ws_username,  \* self.username: "None", "" or a name
    main_pc,      \* the position of the foreground coroutine
    listen_pc,    \* the position of client.connect(), the listener
    websocket,    \* self.websocket: "None" | "open" | "closed"
    connected,    \* self.connected
    ws_script,    \* the messages the server will push, in order
    ws_delivered, \* how many of them have reached the socket
    ws_inbox,     \* the messages received and not yet handled
    ws_nhandled,  \* how many messages handle_message was called with
    ws_sent,      \* the frames passed to websocket.send, in order
    http_inflight, \* TRUE while session.request blocks the event loop's thread
    \* ---- one run of main of cli/magic_api_resource_manager.py ----
    rm_argv,      \* sys.argv[1:]
    rm_pc,        \* "start" | "parsed" | "done" | "exit1"
    rm_actions,   \* the actions dictionary the argument loop filled
    rm_call,      \* the manager operation main invoked, with its arguments
    \* ---- browsing a listing of cli/extract_class_methods.py page by page ----
    br_op,        \* "off" or the listing that is browsed
    br_items,     \* the full list the listing collects on every call
    br_page_size, \* --page-size, the same on every call
    br_limit,     \* --limit, the same on every call
    br_next,      \* the --page of the next call
    br_total_pages, \* total_pages as the last call computed it
    br_displayed, \* the items the calls displayed, in order
    \* ---- the shutdown of the MCP server process (run_mcp.py) ----
    sd_context,   \* tool_registry.context exists
    sd_ws_manager,       \* context.ws_manager: what it is and how stop_sync ends
    sd_resource_manager, \* context.resource_manager: what it is and how close ends
    sd_pc,        \* "off" | "serving" | "exiting" | "exited"
    sd_path,      \* how mcp.run ended
    sd_exit,      \* the status passed to sys.exit, "none" before
    sd_calls,     \* every manager method invoked since the process started
    sd_last,      \* those of the last run of _cleanup_resources
    sd_escaped,   \* TRUE when an exception left _cleanup_resources
    \* ---- MagicAPIClassClient.__init__ (cli/extract_class_methods.py) ----
    url_input,    \* the base_url argument
    url_pc,       \* "off" | "new" | "ready"
    url_base      \* self.base_url

pathVars == <<pmode, ppc, api_children, target_path, results, ninput, npath, nfirst, napplied>>

clientVars == <<ckind, cpc, ccreds, csession, cloginposts, cloginresp, ncalls, lastCall>>

sessVars == <<sauth, scli, screds, sstate, stoken, sinflight, sloginCalls,
              svalid, sfaults, sresets, pc, call>>

cliVars == <<cli_children, cli_cmd, cli_arg, cli_filters, cli_pc, api_matches,
             variant_arg, variant_matches, api_endpoints, filtered_endpoints,
             stdout, fetched, exit_status>>

pageVars == <<all_items, page, page_size, limit, pg_pc, pg_op, paginated, pg_shown,
              pg_message>>

batchVars == <<batch_kind, batch_items, batch_pc, batch_next, batch_attempts,
               batch_applied, batch_result, batch_report>>

opVars == <<op_count, op_last>>

wsVars == <<ws_mode, ws_username, main_pc, listen_pc, websocket, connected, ws_script,
            ws_delivered, ws_inbox, ws_nhandled, ws_sent, http_inflight>>

rmVars == <<rm_argv, rm_pc, rm_actions, rm_call>>

browseVars == <<br_op, br_items, br_page_size, br_limit, br_next, br_total_pages,
                br_displayed>>

shutdownVars == <<sd_context, sd_ws_manager, sd_resource_manager, sd_pc, sd_path,
                  sd_exit, sd_calls, sd_last, sd_escaped>>

urlVars == <<url_input, url_pc, url_base>>

auxVars == <<wsVars, rmVars, browseVars, shutdownVars, urlVars>>

\* what a step of the WebSocket client, which has an HTTP client, leaves alone
notWsVars == <<pathVars, sessVars, cliVars, pageVars, batchVars, opVars, rmVars,
               browseVars, shutdownVars, urlVars>>

\* what a step of the resource manager CLI leaves alone
notRmVars == <<pathVars, clientVars, sessVars, cliVars, pageVars, batchVars, opVars,
               wsVars, browseVars, shutdownVars, urlVars>>

\* what a call of a browsed listing leaves alone
notBrowseVars == <<pathVars, clientVars, sessVars, cliVars, pageVars, batchVars,
                   opVars, wsVars, rmVars, shutdownVars, urlVars>>

\* what a step of the server's shutdown leaves alone
notShutdownVars == <<pathVars, clientVars, sessVars, cliVars, pageVars, batchVars,
                     opVars, wsVars, rmVars, browseVars, urlVars>>

\* what the constructor of MagicAPIClassClient leaves alone
notUrlVars == <<pathVars, clientVars, sessVars, cliVars, pageVars, batchVars, opVars,
                wsVars, rmVars, browseVars, shutdownVars>>

toolVars == <<cliVars, pageVars, batchVars, opVars, auxVars>>

vars == <<pathVars, clientVars, sessVars, toolVars>>

----------------------------------------------------------------------------
(* Bounds *)

\* longest text the normalisation is applied to
MaxPathLen == 5
\* longest target path handed to find_api_by_path
MaxTargetLen == 3
\* how many operations one client is asked to perform
MaxCalls == 2
\* callers of one session manager, each issuing one call
NCallers == 2
\* credential resets in one run
MaxResets == 1

Chars == {"/", "a", "b"}

RECURSIVE TextsOfLen(_)
TextsOfLen(n) ==
    IF n = 0 THEN {<< >>}
    ELSE {<<c>> \o t : c \in Chars, t \in TextsOfLen(n - 1)}

TextsUpTo(n) == UNION {TextsOfLen(k) : k \in 0..n}

----------------------------------------------------------------------------
(* Python string primitives used by the path functions *)

RECURSIVE LStrip(_)
LStrip(s) == IF s # << >> /\ Head(s) = "/" THEN LStrip(Tail(s)) ELSE s

RECURSIVE RStrip(_)
RStrip(s) ==
    IF s # << >> /\ s[Len(s)] = "/" THEN RStrip(SubSeq(s, 1, Len(s) - 1)) ELSE s

\* str.strip('/')
Strip(s) == RStrip(LStrip(s))

\* '//' in path
HasDoubleSlash(s) == \E i \in 1..(Len(s) - 1) : s[i] = "/" /\ s[i + 1] = "/"

\* path.replace('//', '/'): one left-to-right pass over non-overlapping occurrences
RECURSIVE ReplaceDoubleSlash(_)
ReplaceDoubleSlash(s) ==
    IF Len(s) < 2 THEN s
    ELSE IF s[1] = "/" /\ s[2] = "/"
         THEN <<"/">> \o ReplaceDoubleSlash(SubSeq(s, 3, Len(s)))
         ELSE <<s[1]>> \o ReplaceDoubleSlash(Tail(s))

\* while '//' in path: path = path.replace('//', '/')
RECURSIVE CollapseSlashes(_)
CollapseSlashes(s) ==
    IF HasDoubleSlash(s) THEN CollapseSlashes(ReplaceDoubleSlash(s)) ELSE s

\* str.startswith
StartsWith(s, prefix) ==
    Len(prefix) <= Len(s) /\ SubSeq(s, 1, Len(prefix)) = prefix

----------------------------------------------------------------------------
(* clean_path and normalize_path *)

clean_path_single_pass(path) ==
    IF path = << >> THEN << >> ELSE ReplaceDoubleSlash(Strip(path))

clean_path(path) ==
    IF path = << >> THEN << >> ELSE CollapseSlashes(Strip(path))

normalize_path_single_pass(path) ==
    IF path = << >> THEN << >> ELSE ReplaceDoubleSlash(Strip(path))

normalize_path(path) ==
    IF path = << >> THEN << >> ELSE CollapseSlashes(Strip(path))

----------------------------------------------------------------------------
(* find_api_by_path *)

\* full_path as built from parent_path and the node's own path, then cleaned
BuildFullPath(parent_path, current_path) ==
    clean_path(
        IF current_path # << >> /\ parent_path # << >>
        THEN parent_path \o <<"/">> \o current_path
        ELSE IF current_path # << >> THEN current_path
        ELSE IF parent_path # << >> THEN parent_path
        ELSE << >>)

\* the three-way comparison of the normalised full path with the normalised target
PathMatches_char_prefix(full_path, target) ==
    LET normalized_target == normalize_path(target)
        normalized_full_path == normalize_path(full_path)
    IN \/ normalized_full_path = normalized_target
       \/ StartsWith(normalized_full_path, normalized_target)
       \/ StartsWith(normalized_target, normalized_full_path)

PathMatches_raw_target(full_path, target) ==
    LET normalized_full_path == normalize_path(full_path)
    IN \/ normalized_full_path = target
       \/ StartsWith(normalized_full_path, target \o <<"/">>)
       \/ StartsWith(target, normalized_full_path \o <<"/">>)

PathMatches(full_path, target) ==
    LET normalized_target == normalize_path(target)
        normalized_full_path == normalize_path(full_path)
    IN \/ normalized_full_path = normalized_target
       \/ StartsWith(normalized_full_path, normalized_target \o <<"/">>)
       \/ StartsWith(normalized_target, normalized_full_path \o <<"/">>)

\* the guard of the append: an absent method or id is the empty string (falsy)
IsCandidate(node_info, full_path) ==
    node_info.method # "" /\ full_path # << >> /\ node_info.id # ""

MatchedNode(node_info, full_path) ==
    [id |-> node_info.id, path |-> full_path, method |-> node_info.method,
     name |-> node_info.name, groupId |-> node_info.groupId]

RECURSIVE find_api_by_path(_, _, _, _)
RECURSIVE FindInChildren(_, _, _, _)

find_api_by_path(node, target, parent_path, res) ==
    LET node_info == node.node
        full_path == BuildFullPath(parent_path, node_info.path)
        res1 == IF IsCandidate(node_info, full_path) /\ PathMatches(full_path, target)
                THEN Append(res, MatchedNode(node_info, full_path))
                ELSE res
    IN FindInChildren(node.children, target, full_path, res1)

RECURSIVE FindInChildren_reversed(_, _, _, _)
FindInChildren_reversed(children, target, full_path, res) ==
    IF children = << >> THEN res
    ELSE FindInChildren_reversed(SubSeq(children, 1, Len(children) - 1), target, full_path,
                                 find_api_by_path(children[Len(children)], target,
                                                  full_path, res))

\* for child in children: find_api_by_path(child, target_path, full_path, results)
FindInChildren(children, target, full_path, res) ==
    IF children = << >> THEN res
    ELSE FindInChildren(Tail(children), target, full_path,
                        find_api_by_path(Head(children), target, full_path, res))

\* the loop of find_api_id_by_path over the top-level children
find_api_id_by_path(children, target) == FindInChildren(children, target, << >>, << >>)

----------------------------------------------------------------------------
(* The trees the resolver is run on *)

\* a node's own path fragment: empty, one segment, a segment that has "a" as a
\* character prefix, and a fragment carrying stray slashes
Segments == {<< >>, <<"a">>, <<"a", "b">>, <<"/", "b", "/">>}

\* group (no method), endpoint (method and id), and a node with a method but no id
Kinds == {[method |-> "", hasId |-> TRUE],
          [method |-> "GET", hasId |-> TRUE],
          [method |-> "GET", hasId |-> FALSE]}

MkNode(nid, seg, kind, kids) ==
    [node |-> [id |-> IF kind.hasId THEN nid ELSE "", path |-> seg, name |-> "n",
               method |-> kind.method, groupId |-> "g"],
     children |-> kids]

\* root -> child -> grandchild, and root -> (child, child): ids are unique in a tree
Trees ==
    {<<MkNode("n1", s1, k1, <<MkNode("n2", s2, k2, <<MkNode("n3", s3, k3, << >>)>>)>>)>> :
        s1 \in Segments, k1 \in Kinds, s2 \in Segments, k2 \in Kinds,
        s3 \in Segments, k3 \in Kinds}
    \cup
    {<<MkNode("n1", s1, k1, <<MkNode("n2", s2, k2, << >>), MkNode("n3", s3, k3, << >>)>>)>> :
        s1 \in Segments, k1 \in Kinds, s2 \in Segments, k2 \in Kinds,
        s3 \in Segments, k3 \in Kinds}

NoTree == << >>

----------------------------------------------------------------------------
(* The path resolver as a state machine *)

PathInit ==
    /\ pmode \in {"find", "normalize_path", "clean_path"}
    /\ ppc = "start"
    /\ results = << >>
    /\ napplied = 0
    /\ nfirst = << >>
    /\ IF pmode = "find"
       THEN /\ api_children \in Trees
            /\ target_path \in TextsUpTo(MaxTargetLen)
            /\ npath = << >>
            /\ ninput = << >>
       ELSE /\ api_children = NoTree
            /\ target_path = << >>
            /\ npath \in TextsUpTo(MaxPathLen)
            /\ ninput = npath

\* the resolver takes no part in a run
PathIdle ==
    /\ pmode = "off" /\ ppc = "start" /\ api_children = NoTree /\ target_path = << >>
    /\ results = << >> /\ ninput = << >> /\ npath = << >> /\ nfirst = << >>
    /\ napplied = 0

\* find_api_id_by_path(source, target_path)
FindApiIdByPath ==
    /\ pmode = "find" /\ ppc = "start"
    /\ results' = find_api_id_by_path(api_children, target_path)
    /\ ppc' = "found"
    /\ UNCHANGED <<pmode, api_children, target_path, ninput, npath, nfirst, napplied>>
    /\ UNCHANGED <<clientVars, sessVars, toolVars>>

\* one application of normalize_path to the text at hand
NormalizePath ==
    /\ pmode = "normalize_path" /\ napplied < 2
    /\ npath' = normalize_path(npath)
    /\ nfirst' = IF napplied = 0 THEN npath' ELSE nfirst
    /\ napplied' = napplied + 1
    /\ ppc' = "applied"
    /\ UNCHANGED <<pmode, api_children, target_path, results, ninput>>
    /\ UNCHANGED <<clientVars, sessVars, toolVars>>

\* one application of clean_path to the text at hand
CleanPath ==
    /\ pmode = "clean_path" /\ napplied < 2
    /\ npath' = clean_path(npath)
    /\ nfirst' = IF napplied = 0 THEN npath' ELSE nfirst
    /\ napplied' = napplied + 1
    /\ ppc' = "applied"
    /\ UNCHANGED <<pmode, api_children, target_path, results, ninput>>
    /\ UNCHANGED <<clientVars, sessVars, toolVars>>

NextPath == FindApiIdByPath \/ NormalizePath \/ CleanPath

----------------------------------------------------------------------------
(* HTTP clients sharing the requests session of MagicAPIHTTPClient *)

MagicToken == "magic-token"
Placeholder == "unauthorization"
Tokens == {"test-token-123", "rm-token-456"}

\* {} : no headers
NoHeaders == << >>

\* dict.update: the entries of new replace those of old
Update(old, new) == new @@ old

\* dict.get(k), an absent entry read as ""
HeaderOf(h, k) == IF k \in DOMAIN h THEN h[k] ELSE ""

\* the backend's answer to POST /login: the envelope's code and the magic-token
\* response header ("" when the header is absent)
LoginResponses == [code : {0, 1}, token : Tokens \cup {""}]

NoLoginResp == [code |-> 0 - 1, token |-> ""]

\* a manager without credentials skips the login
ShouldLogin(creds) == creds

\* the login exchange: the token of a successful answer becomes the session's
\* magic-token header
LoginStoreToken(headers, resp) ==
    IF resp.code = 1 /\ resp.token # ""
    THEN Update(headers, MagicToken :> resp.token)
    ELSE headers

BackupHeaders ==
    ("Content-Type" :> "application/json") @@ ("Accept" :> "application/json")
    @@ ("User-Agent" :> "magicapi-backup-manager/1.0")

ClientInitHeaders_assign(kind, headers) ==
    IF kind = "backup" THEN BackupHeaders ELSE headers

\* what a client's constructor does to the headers of the session it shares:
\* MagicAPIBackupClient updates three of them, MagicAPIWebSocketClient none
ClientInitHeaders(kind, headers) ==
    IF kind = "backup" THEN Update(headers, BackupHeaders) ELSE headers

\* requests merges the session's headers with those passed to the call, and the
\* call's headers win
EffectiveHeaders(session_headers, explicit) == Update(session_headers, explicit)

Request(op, method, explicit) ==
    [op |-> op, method |-> method, explicit |-> explicit,
     token |-> HeaderOf(EffectiveHeaders(csession, explicit), MagicToken)]

\* what the transport did with a request, what body a response carried, and
\* whether the installed requests raises its JSON error as a RequestException
Transports == {"Timeout", "ConnectionError", "200", "401", "500"}
Bodies == {"json_code1", "json_code0", "not_json"}
Outcomes == [transport : Transports, body : Bodies,
             json_error_is_request_exception : BOOLEAN]

NoOutcome == [transport |-> "none", body |-> "none",
              json_error_is_request_exception |-> FALSE]

IsException(o) == o.transport \in {"Timeout", "ConnectionError"}

\* connection error, timeout, 5xx
NonAuthFailure(o) == o.transport \in {"Timeout", "ConnectionError", "500"}

ClientId == "python_client_0"

\* run_custom_api_call passes no headers to call_api
CallerHeaders == NoHeaders

call_api_headers_placeholder(client_id, headers) ==
    LET default_headers ==
            ("X-MAGIC-CLIENT-ID" :> client_id) @@ ("X-MAGIC-SCRIPT-ID" :> "test_script")
            @@ ("Content-Type" :> "application/json") @@ (MagicToken :> Placeholder)
    IN IF headers # NoHeaders THEN Update(default_headers, headers) ELSE default_headers

\* default_headers of call_api, merged with the caller's
call_api_headers(client_id, headers) ==
    LET default_headers ==
            ("X-MAGIC-CLIENT-ID" :> client_id) @@ ("X-MAGIC-SCRIPT-ID" :> "test_script")
            @@ ("Content-Type" :> "application/json")
    IN IF headers # NoHeaders THEN Update(default_headers, headers) ELSE default_headers

call_api_sent_retry(req, o) ==
    IF o.transport = "Timeout" THEN <<req, req>> ELSE <<req>>

\* the requests call_api sends: one session.request inside the try block
call_api_sent(req, o) == <<req>>

\* call_api returns the decoded body, the text, or None after an exception
call_api_return(o) ==
    IF IsException(o) THEN "None"
    ELSE IF o.body = "not_json" THEN "text" ELSE "json"

\* get_backups sends one session.get
get_backups_sent(req, o) == <<req>>

\* get_backups returns the envelope's data when code == 1 and [] otherwise;
\* raise_for_status turns 4xx/5xx into a RequestException
get_backups_return(o) ==
    IF IsException(o) THEN "[]"
    ELSE IF o.transport # "200" THEN "[]"
    ELSE IF o.body = "not_json"
         THEN IF o.json_error_is_request_exception THEN "[]" ELSE "raise"
    ELSE IF o.body = "json_code1" THEN "data" ELSE "[]"

\* the headers copy_group passes with its POST
copy_group_headers == "Content-Type" :> "application/x-www-form-urlencoded"

copy_group_return(o) ==
    IF ~IsException(o) /\ o.transport = "200" /\ o.body = "json_code1"
    THEN "data" ELSE "None"

NoCall == [op |-> "none", sent |-> << >>, outcome |-> NoOutcome, ret |-> "none"]

ClientInit ==
    /\ ckind \in {"http", "rm", "ws", "backup"}
    /\ cpc = "new"
    /\ ccreds \in BOOLEAN
    /\ csession = NoHeaders
    /\ cloginposts = 0
    /\ cloginresp = NoLoginResp
    /\ ncalls = 0
    /\ lastCall = NoCall

\* no client takes part in a run
ClientIdle ==
    /\ ckind = "off" /\ cpc = "new" /\ ccreds = FALSE /\ csession = NoHeaders
    /\ cloginposts = 0 /\ cloginresp = NoLoginResp /\ ncalls = 0 /\ lastCall = NoCall

\* the constructor: MagicAPIHTTPClient(settings) logs in, then the client's own
\* __init__ shares its session and adjusts the headers
Construct ==
    /\ cpc = "new"
    /\ \E resp \in LoginResponses :
         IF ShouldLogin(ccreds)
         THEN /\ cloginresp' = resp
              /\ cloginposts' = cloginposts + 1
              /\ csession' = ClientInitHeaders(ckind, LoginStoreToken(csession, resp))
         ELSE /\ cloginresp' = NoLoginResp
              /\ cloginposts' = cloginposts
              /\ csession' = ClientInitHeaders(ckind, csession)
    /\ cpc' = "ready"
    /\ UNCHANGED <<ckind, ccreds, ncalls, lastCall>>
    /\ UNCHANGED <<pathVars, sessVars, toolVars>>

\* MagicAPIWebSocketClient.call_api, as run_custom_api_call invokes it
CallApi ==
    /\ cpc = "ready" /\ ckind = "ws" /\ ncalls < MaxCalls
    /\ \E method \in {"GET", "POST"}, o \in Outcomes :
         lastCall' =
            [op |-> "call_api",
             sent |-> call_api_sent(
                         Request("call_api", method,
                                 call_api_headers(ClientId, CallerHeaders)), o),
             outcome |-> o,
             ret |-> call_api_return(o)]
    /\ ncalls' = ncalls + 1
    /\ UNCHANGED <<ckind, cpc, ccreds, csession, cloginposts, cloginresp>>
    /\ UNCHANGED <<pathVars, sessVars, toolVars>>

\* MagicAPIBackupClient.get_backups
GetBackups ==
    /\ cpc = "ready" /\ ckind = "backup" /\ ncalls < MaxCalls
    /\ \E o \in Outcomes :
         lastCall' =
            [op |-> "get_backups",
             sent |-> get_backups_sent(Request("get_backups", "GET", NoHeaders), o),
             outcome |-> o,
             ret |-> get_backups_return(o)]
    /\ ncalls' = ncalls + 1
    /\ UNCHANGED <<ckind, cpc, ccreds, csession, cloginposts, cloginresp>>
    /\ UNCHANGED <<pathVars, sessVars, toolVars>>

\* MagicAPIResourceManager.copy_group
CopyGroup ==
    /\ cpc = "ready" /\ ckind = "rm" /\ ncalls < MaxCalls
    /\ \E o \in Outcomes :
         lastCall' =
            [op |-> "copy_group",
             sent |-> <<Request("copy_group", "POST", copy_group_headers)>>,
             outcome |-> o,
             ret |-> copy_group_return(o)]
    /\ ncalls' = ncalls + 1
    /\ UNCHANGED <<ckind, cpc, ccreds, csession, cloginposts, cloginresp>>
    /\ UNCHANGED <<pathVars, sessVars, toolVars>>

NextClient == Construct \/ CallApi \/ GetBackups \/ CopyGroup

----------------------------------------------------------------------------
(* The session manager: send(method, path, ...) under concurrent callers *)

Callers == 1..NCallers

MainCredentials_ignore_auth_enabled(auth_enabled, settings_user, cli_user) ==
    cli_user \/ settings_user

\* main of the resource manager CLI: the settings' username and password count
\* only when auth is enabled, and --username/--password replace them
MainCredentials(auth_enabled, settings_user, cli_user) ==
    cli_user \/ (auth_enabled /\ settings_user)

NoObs == [id |-> 0, ok |-> FALSE, token |-> 0]

\* a call: the state it was issued in, the requests sent for it, the token on
\* the latest of them, the unauthorized answers it received, the re-logins it
\* started, joined or adopted after one, the login it waits for, the login
\* outcome it observed, and its result
NewCall(state) ==
    [issuedIn |-> state, sent |-> 0, tok |-> 0, authFails |-> 0, relogins |-> 0,
     waitFor |-> 0, obs |-> NoObs, result |-> "none"]

NoCallRec == NewCall("none")

FailFast_never(state) == FALSE

\* a Failed session refuses every call at once
FailFast(state) == state = "Failed"

JoinInFlight_never(inflight) == FALSE

\* single-flight: a caller that finds a login at the backend waits for it
JoinInFlight(inflight) == inflight # {}

\* the cached token cannot serve this call: there is none, or it is the one the
\* backend has just refused
NeedsLogin(c) ==
    IF pc[c] = "issued" THEN stoken = 0 ELSE stoken = call[c].tok

GiveUp_never(authFails) == FALSE

\* a second unauthorized answer ends the call
GiveUp(authFails) == authFails >= 2

WaitersOf_first(id) ==
    LET W == {c \in Callers : pc[c] = "waiting" /\ call[c].waitFor = id}
    IN {c \in W : \A d \in W : c <= d}

\* the callers blocked on a login
WaitersOf(id) == {c \in Callers : pc[c] = "waiting" /\ call[c].waitFor = id}

SessInit ==
    /\ sauth \in BOOLEAN /\ scli \in BOOLEAN
    /\ \E settings_user \in BOOLEAN : screds = MainCredentials(sauth, settings_user, scli)
    /\ sstate = "Unauthenticated" /\ stoken = 0 /\ sinflight = {} /\ sloginCalls = 0
    \* a backend that does not require a token accepts requests without one
    /\ svalid \in IF screds THEN {{}} ELSE {{}, {0}}
    /\ sfaults = FALSE /\ sresets = 0
    /\ pc = [c \in Callers |-> "idle"]
    /\ call = [c \in Callers |-> NoCallRec]

\* no session manager takes part in a run
SessIdle ==
    /\ sauth = FALSE /\ scli = FALSE /\ screds = FALSE
    /\ sstate = "off" /\ stoken = 0 /\ sinflight = {} /\ sloginCalls = 0
    /\ svalid = {} /\ sfaults = FALSE /\ sresets = 0
    /\ pc = [c \in Callers |-> "idle"]
    /\ call = [c \in Callers |-> NoCallRec]

\* a caller issues send
Issue(c) ==
    /\ pc[c] = "idle"
    /\ pc' = [pc EXCEPT ![c] = "issued"]
    /\ call' = [call EXCEPT ![c] = NewCall(sstate)]
    /\ UNCHANGED <<sauth, scli, screds, sstate, stoken, sinflight, sloginCalls,
                   svalid, sfaults, sresets>>
    /\ UNCHANGED <<pathVars, clientVars, toolVars>>

\* the serialized step of send: fail fast, wait for the login in flight, start
\* a login, or attach the token and send the request
Enter(c) ==
    /\ pc[c] \in {"issued", "retry", "ready"}
    /\ IF FailFast(sstate)
       THEN /\ pc' = [pc EXCEPT ![c] = "done"]
            /\ call' = [call EXCEPT ![c].result = "AuthError"]
            /\ UNCHANGED <<sstate, sinflight, sloginCalls>>
       ELSE IF pc[c] = "ready"
       THEN /\ pc' = [pc EXCEPT ![c] = "inflight"]
            /\ call' = [call EXCEPT ![c].sent = @ + 1, ![c].tok = call[c].obs.token]
            /\ UNCHANGED <<sstate, sinflight, sloginCalls>>
       ELSE IF ~screds
       THEN /\ pc' = [pc EXCEPT ![c] = "inflight"]
            /\ call' = [call EXCEPT ![c].sent = @ + 1, ![c].tok = 0]
            /\ UNCHANGED <<sstate, sinflight, sloginCalls>>
       ELSE IF JoinInFlight(sinflight)
       THEN /\ \E id \in sinflight :
                 call' = [call EXCEPT ![c].waitFor = id,
                                      ![c].relogins = IF pc[c] = "retry" THEN @ + 1 ELSE @]
            /\ pc' = [pc EXCEPT ![c] = "waiting"]
            /\ UNCHANGED <<sstate, sinflight, sloginCalls>>
       ELSE IF NeedsLogin(c)
       THEN /\ sloginCalls' = sloginCalls + 1
            /\ sinflight' = sinflight \cup {sloginCalls + 1}
            /\ sstate' = "Reauthenticating"
            /\ call' = [call EXCEPT ![c].waitFor = sloginCalls + 1,
                                    ![c].relogins = IF pc[c] = "retry" THEN @ + 1 ELSE @]
            /\ pc' = [pc EXCEPT ![c] = "waiting"]
       ELSE /\ pc' = [pc EXCEPT ![c] = "inflight"]
            /\ call' = [call EXCEPT ![c].sent = @ + 1, ![c].tok = stoken,
                                    ![c].relogins = IF pc[c] = "retry" THEN @ + 1 ELSE @,
                                    ![c].obs = IF pc[c] = "retry"
                                               THEN [id |-> stoken, ok |-> TRUE, token |-> stoken]
                                               ELSE @]
            /\ UNCHANGED <<sstate, sinflight, sloginCalls>>
    /\ UNCHANGED <<sauth, scli, screds, stoken, svalid, sfaults, sresets>>
    /\ UNCHANGED <<pathVars, clientVars, toolVars>>

\* the backend answers a login: every caller blocked on it gets its outcome
LoginComplete(id, ok) ==
    /\ id \in sinflight
    /\ sinflight' = sinflight \ {id}
    /\ IF ok
       THEN /\ stoken' = id
            /\ svalid' = svalid \cup {id}
            /\ sstate' = "Authenticated"
            /\ sfaults' = sfaults
            /\ pc' = [c \in Callers |-> IF c \in WaitersOf(id) THEN "ready" ELSE pc[c]]
            /\ call' = [c \in Callers |->
                          IF c \in WaitersOf(id)
                          THEN [call[c] EXCEPT !.obs = [id |-> id, ok |-> TRUE, token |-> id]]
                          ELSE call[c]]
       ELSE /\ sstate' = "Failed"
            /\ sfaults' = TRUE
            /\ UNCHANGED <<stoken, svalid>>
            /\ pc' = [c \in Callers |-> IF c \in WaitersOf(id) THEN "done" ELSE pc[c]]
            /\ call' = [c \in Callers |->
                          IF c \in WaitersOf(id)
                          THEN [call[c] EXCEPT !.obs = [id |-> id, ok |-> FALSE, token |-> 0],
                                               !.result = "AuthError"]
                          ELSE call[c]]
    /\ UNCHANGED <<sauth, scli, screds, sloginCalls, sresets>>
    /\ UNCHANGED <<pathVars, clientVars, toolVars>>

\* the backend answers a request: ok for a token it accepts, unauthorized for one
\* it does not, or the transport fails
Respond(c, r) ==
    /\ pc[c] = "inflight"
    /\ r = "ok" => call[c].tok \in svalid
    /\ r = "unauthorized" => call[c].tok \notin svalid
    /\ IF r = "ok"
       THEN /\ pc' = [pc EXCEPT ![c] = "done"]
            /\ call' = [call EXCEPT ![c].result = "ok"]
            /\ sfaults' = sfaults
       ELSE IF r = "network"
       THEN /\ pc' = [pc EXCEPT ![c] = "done"]
            /\ call' = [call EXCEPT ![c].result = "NetworkError"]
            /\ sfaults' = TRUE
       ELSE /\ sfaults' = TRUE
            /\ IF ~screds \/ GiveUp(call[c].authFails + 1)
               THEN /\ pc' = [pc EXCEPT ![c] = "done"]
                    /\ call' = [call EXCEPT ![c].authFails = @ + 1,
                                            ![c].result = "AuthError"]
               ELSE /\ pc' = [pc EXCEPT ![c] = "retry"]
                    /\ call' = [call EXCEPT ![c].authFails = @ + 1]
    /\ UNCHANGED <<sauth, scli, screds, sstate, stoken, sinflight, sloginCalls,
                   svalid, sresets>>
    /\ UNCHANGED <<pathVars, clientVars, toolVars>>

\* a token expires at the backend
Expire ==
    /\ \E t \in svalid \ {0} : svalid' = svalid \ {t}
    /\ sfaults' = TRUE
    /\ UNCHANGED <<sauth, scli, screds, sstate, stoken, sinflight, sloginCalls,
                   sresets, pc, call>>
    /\ UNCHANGED <<pathVars, clientVars, toolVars>>

\* the credentials are reset: the only way out of Failed
ResetCredentials ==
    /\ sstate = "Failed" /\ sresets < MaxResets
    /\ sstate' = "Unauthenticated"
    /\ stoken' = 0
    /\ sresets' = sresets + 1
    /\ UNCHANGED <<sauth, scli, screds, sinflight, sloginCalls, svalid, sfaults,
                   pc, call>>
    /\ UNCHANGED <<pathVars, clientVars, toolVars>>

NextSession ==
    \/ \E c \in Callers : Issue(c)
    \/ \E c \in Callers : Enter(c)
    \/ \E id \in sinflight, ok \in BOOLEAN : LoginComplete(id, ok)
    \/ \E c \in Callers, r \in {"ok", "unauthorized", "network"} : Respond(c, r)
    \/ Expire
    \/ ResetCredentials

----------------------------------------------------------------------------
(* Text primitives of the endpoint listing *)

\* ord(c) for the characters that occur in endpoint lines and patterns
CodePoint(c) ==
    CASE c = " " -> 32  [] c = "(" -> 40  [] c = "/" -> 47
      [] c = "E" -> 69  [] c = "G" -> 71  [] c = "O" -> 79  [] c = "P" -> 80
      [] c = "S" -> 83  [] c = "T" -> 84  [] c = "[" -> 91  [] c = "]" -> 93
      [] c = "a" -> 97  [] c = "b" -> 98  [] c = "e" -> 101 [] c = "g" -> 103
      [] c = "n" -> 110 [] c = "o" -> 111 [] c = "p" -> 112 [] c = "s" -> 115
      [] c = "t" -> 116 [] c = "z" -> 122

\* str < str: by code point, a proper prefix first
RECURSIVE TextLess(_, _)
TextLess(s, t) ==
    IF t = << >> THEN FALSE
    ELSE IF s = << >> THEN TRUE
    ELSE IF Head(s) # Head(t) THEN CodePoint(Head(s)) < CodePoint(Head(t))
    ELSE TextLess(Tail(s), Tail(t))

RECURSIVE InsertSorted(_, _)
InsertSorted(x, seq) ==
    IF seq = << >> THEN <<x>>
    ELSE IF TextLess(x, Head(seq)) THEN <<x>> \o seq
    ELSE <<Head(seq)>> \o InsertSorted(x, Tail(seq))

\* sorted(results): ascending, equal lines kept in their order
RECURSIVE sorted(_)
sorted(seq) ==
    IF seq = << >> THEN << >>
    ELSE InsertSorted(seq[Len(seq)], sorted(SubSeq(seq, 1, Len(seq) - 1)))

\* str.lower and str.upper on one character
Lower(c) ==
    CASE c = "E" -> "e" [] c = "G" -> "g" [] c = "O" -> "o" [] c = "P" -> "p"
      [] c = "S" -> "s" [] c = "T" -> "t" [] c = "I" -> "i" [] c = "L" -> "l"
      [] c = "N" -> "n" [] OTHER -> c

Upper(c) ==
    CASE c = "e" -> "E" [] c = "g" -> "G" [] c = "o" -> "O" [] c = "p" -> "P"
      [] c = "s" -> "S" [] c = "t" -> "T" [] c = "i" -> "I" [] c = "l" -> "L"
      [] c = "n" -> "N" [] OTHER -> c

UpperText(s) == [i \in DOMAIN s |-> Upper(s[i])]

\* c in text
HasChar(s, c) == \E i \in DOMAIN s : s[i] = c

\* ep.split(' ', 1)[1]: what follows the first space
RECURSIVE AfterFirstSpace(_)
AfterFirstSpace(s) ==
    IF s = << >> THEN << >>
    ELSE IF Head(s) = " " THEN Tail(s)
    ELSE AfterFirstSpace(Tail(s))

\* the text of a node's method
MethodText(method) ==
    CASE method = "GET" -> <<"G", "E", "T">>
      [] method = "POST" -> <<"P", "O", "S", "T">>
      [] OTHER -> << >>

----------------------------------------------------------------------------
(* traverse_api_tree and extract_api_endpoints *)

\* f"{method} {full_path} [{current_name}]", the name left out when it is empty
\* or equal to the node's own path
EndpointLine(method, full_path, current_name, current_path) ==
    IF current_name # << >> /\ current_name # current_path
    THEN MethodText(method) \o <<" ">> \o full_path \o <<" ", "[">> \o current_name \o <<"]">>
    ELSE MethodText(method) \o <<" ">> \o full_path

RECURSIVE traverse_api_tree(_, _, _)
RECURSIVE TraverseChildren(_, _, _)

traverse_api_tree(node, parent_path, res) ==
    LET node_info == node.node
        full_path == BuildFullPath(parent_path, node_info.path)
        res1 == IF node_info.method # "" /\ full_path # << >>
                THEN Append(res, EndpointLine(node_info.method, full_path,
                                              node_info.name, node_info.path))
                ELSE res
    IN TraverseChildren(node.children, full_path, res1)

\* for child in children: traverse_api_tree(child, full_path, results)
TraverseChildren(children, full_path, res) ==
    IF children = << >> THEN res
    ELSE TraverseChildren(Tail(children), full_path,
                          traverse_api_tree(Head(children), full_path, res))

extract_api_endpoints_unsorted(children) == TraverseChildren(children, << >>, << >>)

\* the loop over the top-level children, then sorted(results)
extract_api_endpoints(children) == sorted(TraverseChildren(children, << >>, << >>))

----------------------------------------------------------------------------
(* filter_endpoints *)

\* a filter that was not given
NoPattern == << >>

\* the patterns a run is given: a literal that occurs in lines, a literal that
\* occurs in none, and an unbalanced parenthesis
Patterns == {NoPattern, <<"a">>, <<"z">>, <<"(">>}

MethodFilters == {NoPattern, <<"g", "e", "t">>}

\* re.compile raises re.error
re_error(pattern) == HasChar(pattern, "(")

\* pattern.search(text) under re.IGNORECASE, for a literal pattern
re_search(pattern, text) ==
    \E i \in 0..(Len(text) - Len(pattern)) :
        \A k \in DOMAIN pattern : Lower(text[i + k]) = Lower(pattern[k])

HasBrackets(ep) == HasChar(ep, "[") /\ HasChar(ep, "]")

Line(kind, id, n, text) == [line |-> kind, id |-> id, n |-> n, text |-> text]

\* the value filter_endpoints returns and the lines it prints
filter_endpoints(endpoints, path_filter, name_filter, method_filter, query_filter) ==
    LET by_method(ep) == StartsWith(ep, UpperText(method_filter) \o <<" ">>)
        by_query(ep) == \/ re_search(query_filter, AfterFirstSpace(ep))
                        \/ (HasBrackets(ep) /\ re_search(query_filter, ep))
        by_path(ep) == re_search(path_filter, AfterFirstSpace(ep))
        by_name(ep) == HasBrackets(ep) /\ re_search(name_filter, ep)
        f1 == IF method_filter # NoPattern THEN SelectSeq(endpoints, by_method) ELSE endpoints
        f2 == IF query_filter # NoPattern THEN SelectSeq(f1, by_query) ELSE f1
        f3 == IF path_filter # NoPattern THEN SelectSeq(f2, by_path) ELSE f2
        f4 == IF name_filter # NoPattern THEN SelectSeq(f3, by_name) ELSE f3
    IN IF query_filter # NoPattern /\ re_error(query_filter)
       THEN [ret |-> << >>, out |-> <<Line("regex_error", "query", 0, query_filter)>>]
       ELSE IF path_filter # NoPattern /\ re_error(path_filter)
       THEN [ret |-> << >>, out |-> <<Line("regex_error", "path", 0, path_filter)>>]
       ELSE IF name_filter # NoPattern /\ re_error(name_filter)
       THEN [ret |-> << >>, out |-> <<Line("regex_error", "name", 0, name_filter)>>]
       ELSE [ret |-> f4, out |-> << >>]

NoFilters == [method |-> NoPattern, query |-> NoPattern, path |-> NoPattern,
              name |-> NoPattern]

FilterSets == [method : MethodFilters, query : Patterns, path : Patterns, name : Patterns]

----------------------------------------------------------------------------
(* fetch_api_data and fetch_file_detail: one curl each *)

\* what curl brought back: a failure of curl itself, no output, output that is
\* not JSON, or an envelope with code 1 or another code
CurlResponses == {"curl_failed", "empty", "not_json", "code1", "code0"}

\* fetch_api_data returns the decoded document or ends the process
fetch_api_data(resp) ==
    IF resp \in {"curl_failed", "empty", "not_json"}
    THEN [exit |-> "exit1", ret |-> "none", sent |-> 1]
    ELSE [exit |-> "none", ret |-> "document", sent |-> 1]

fetch_file_detail_ignore_code(resp) ==
    IF resp \in {"curl_failed", "empty", "not_json"}
    THEN [exit |-> "exit1", ret |-> "none", sent |-> 1]
    ELSE [exit |-> "none", ret |-> "data", sent |-> 1]

\* fetch_file_detail returns the envelope's data when code == 1 and ends the
\* process with status 1 in every other case
fetch_file_detail(resp) ==
    IF resp \in {"curl_failed", "empty", "not_json"}
    THEN [exit |-> "exit1", ret |-> "none", sent |-> 1]
    ELSE IF resp # "code1"
    THEN [exit |-> "exit1", ret |-> "none", sent |-> 1]
    ELSE [exit |-> "none", ret |-> "data", sent |-> 1]

----------------------------------------------------------------------------
(* main of cli/extract_api_paths.py *)

\* the branch of --path-to-id once find_api_id_by_path has returned
main_path_to_id(matches, arg) ==
    IF matches = << >>
    THEN [out |-> <<Line("not_found", "", 0, arg)>>, fetched |-> << >>, exit |-> "return"]
    ELSE [out |-> [i \in DOMAIN matches |-> Line("id", matches[i].id, 0, << >>)],
          fetched |-> << >>, exit |-> "return"]

\* api_matches[0] of an empty list raises IndexError, which nothing catches
main_path_to_detail_no_guard(matches, arg, resp) ==
    IF matches = << >>
    THEN [out |-> <<Line("searching", "", 0, arg)>>, fetched |-> << >>, exit |-> "crash"]
    ELSE LET d == fetch_file_detail(resp)
         IN [out |-> <<Line("searching", "", 0, arg),
                       Line("fetching", matches[1].id, 0, matches[1].path),
                       IF d.exit = "exit1" THEN Line("error", matches[1].id, 0, << >>)
                       ELSE Line("detail", matches[1].id, 0, << >>)>>,
             fetched |-> <<matches[1].id>>,
             exit |-> IF d.exit = "exit1" THEN "exit1" ELSE "return"]

main_path_to_detail_silent(matches, arg, resp) ==
    IF matches = << >>
    THEN [out |-> <<Line("searching", "", 0, arg), Line("not_found", "", 0, arg)>>,
          fetched |-> << >>, exit |-> "return"]
    ELSE LET d == fetch_file_detail(resp)
         IN [out |-> <<Line("searching", "", 0, arg),
                       Line("fetching", matches[1].id, 0, matches[1].path),
                       IF d.exit = "exit1" THEN Line("error", matches[1].id, 0, << >>)
                       ELSE Line("detail", matches[1].id, 0, << >>)>>,
             fetched |-> <<matches[1].id>>,
             exit |-> IF d.exit = "exit1" THEN "exit1" ELSE "return"]

\* the branch of --path-to-detail once find_api_id_by_path has returned: report
\* not-found, or list the matches when there are several, then fetch the first
main_path_to_detail(matches, arg, resp) ==
    IF matches = << >>
    THEN [out |-> <<Line("searching", "", 0, arg), Line("not_found", "", 0, arg)>>,
          fetched |-> << >>, exit |-> "return"]
    ELSE LET alternates ==
                 IF Len(matches) > 1
                 THEN <<Line("found_n", "", Len(matches), << >>)>>
                      \o [i \in DOMAIN matches |->
                            Line("match", matches[i].id, i, matches[i].path)]
                 ELSE << >>
             target_match == matches[1]
             d == fetch_file_detail(resp)
         IN [out |-> <<Line("searching", "", 0, arg)>> \o alternates
                     \o <<Line("fetching", target_match.id, 0, target_match.path),
                          IF d.exit = "exit1" THEN Line("error", target_match.id, 0, << >>)
                          ELSE Line("detail", target_match.id, 0, << >>)>>,
             fetched |-> <<target_match.id>>,
             exit |-> IF d.exit = "exit1" THEN "exit1" ELSE "return"]

\* the listing once extract_api_endpoints has returned: filter, then print the
\* count and one row for each endpoint left
main_list(endpoints, f) ==
    LET r == filter_endpoints(endpoints, f.path, f.name, f.method, f.query)
    IN [filtered |-> r.ret,
        out |-> <<Line("extracting", "", 0, << >>)>> \o r.out
                \o <<Line("found_n", "", Len(r.ret), << >>)>>
                \o (IF r.ret = << >> THEN <<Line("no_match", "", 0, << >>)>>
                    ELSE [i \in DOMAIN r.ret |-> Line("row", "", i, r.ret[i])]),
        exit |-> "return"]

\* the nodes a tree of a run is built from: a group, an endpoint, an endpoint
\* named like its own path, an endpoint with neither path nor name, and a node
\* with a method but no id whose path carries stray slashes
NodeChoices ==
    {[seg |-> <<"a">>, method |-> "", hasId |-> TRUE, name |-> <<"n">>],
     [seg |-> <<"a">>, method |-> "GET", hasId |-> TRUE, name |-> <<"n">>],
     [seg |-> <<"a", "b">>, method |-> "GET", hasId |-> TRUE, name |-> <<"a", "b">>],
     [seg |-> << >>, method |-> "GET", hasId |-> TRUE, name |-> << >>],
     [seg |-> <<"/", "b", "/">>, method |-> "POST", hasId |-> FALSE, name |-> <<"n">>]}

MkCliNode(nid, c, kids) ==
    [node |-> [id |-> IF c.hasId THEN nid ELSE "", path |-> c.seg, name |-> c.name,
               method |-> c.method, groupId |-> "g"],
     children |-> kids]

CliTrees ==
    {<<MkCliNode("n1", c1, <<MkCliNode("n2", c2, <<MkCliNode("n3", c3, << >>)>>)>>)>> :
        c1 \in NodeChoices, c2 \in NodeChoices, c3 \in NodeChoices}
    \cup
    {<<MkCliNode("n1", c1, <<MkCliNode("n2", c2, << >>), MkCliNode("n3", c3, << >>)>>)>> :
        c1 \in NodeChoices, c2 \in NodeChoices, c3 \in NodeChoices}

\* the trees a listing with filters is run on: those under one top-level group
FilteredTrees == {t \in CliTrees : t[1].node.method = ""}

\* the spellings of a path that differ from it in leading, trailing or repeated
\* slashes only
Variants(p) ==
    ({<<"/">> \o p, p \o <<"/">>, LStrip(p), RStrip(p), ReplaceDoubleSlash(p)}
     \cup {SubSeq(p, 1, i) \o <<"/">> \o SubSeq(p, i + 1, Len(p)) :
              i \in {k \in DOMAIN p : p[k] = "/"}})
    \ {p}

CliInit ==
    /\ cli_children \in CliTrees
    /\ cli_cmd \in {"path_to_id", "path_to_detail", "list"}
    /\ IF cli_cmd = "list"
       THEN /\ cli_arg = << >>
            /\ cli_filters \in FilterSets
            /\ cli_filters = NoFilters \/ cli_children \in FilteredTrees
       ELSE cli_arg \in TextsUpTo(MaxTargetLen) /\ cli_filters = NoFilters
    /\ cli_pc = "start"
    /\ api_matches = << >> /\ variant_arg = << >> /\ variant_matches = << >>
    /\ api_endpoints = << >> /\ filtered_endpoints = << >>
    /\ stdout = << >> /\ fetched = << >> /\ exit_status = "running"

\* main takes no part in a run
CliIdle ==
    /\ cli_children = NoTree /\ cli_cmd = "off" /\ cli_arg = << >>
    /\ cli_filters = NoFilters /\ cli_pc = "start"
    /\ api_matches = << >> /\ variant_arg = << >> /\ variant_matches = << >>
    /\ api_endpoints = << >> /\ filtered_endpoints = << >>
    /\ stdout = << >> /\ fetched = << >> /\ exit_status = "running"

\* main --url --path-to-id ARG
MainPathToId ==
    /\ cli_pc = "start" /\ cli_cmd = "path_to_id" /\ cli_arg # << >>
    /\ \E fetch_exit \in {fetch_api_data(resp).exit : resp \in CurlResponses} :
         IF fetch_exit = "exit1"
         THEN /\ api_matches' = << >>
              /\ stdout' = <<Line("error", "", 0, << >>)>>
              /\ fetched' = << >>
              /\ exit_status' = "exit1"
         ELSE LET matches == find_api_id_by_path(cli_children, cli_arg)
                  r == main_path_to_id(matches, cli_arg)
              IN /\ api_matches' = matches
                 /\ stdout' = r.out
                 /\ fetched' = r.fetched
                 /\ exit_status' = r.exit
    /\ cli_pc' = "done"
    /\ UNCHANGED <<cli_children, cli_cmd, cli_arg, cli_filters, variant_arg,
                   variant_matches, api_endpoints, filtered_endpoints>>
    /\ UNCHANGED <<pathVars, clientVars, sessVars, auxVars, pageVars, batchVars, opVars>>

\* main --url --path-to-detail ARG
MainPathToDetail ==
    /\ cli_pc = "start" /\ cli_cmd = "path_to_detail" /\ cli_arg # << >>
    /\ \E fetch_exit \in {fetch_api_data(resp).exit : resp \in CurlResponses},
          detail_resp \in CurlResponses :
         IF fetch_exit = "exit1"
         THEN /\ api_matches' = << >>
              /\ stdout' = <<Line("searching", "", 0, cli_arg), Line("error", "", 0, << >>)>>
              /\ fetched' = << >>
              /\ exit_status' = "exit1"
         ELSE LET matches == find_api_id_by_path(cli_children, cli_arg)
                  r == main_path_to_detail(matches, cli_arg, detail_resp)
              IN /\ api_matches' = matches
                 /\ stdout' = r.out
                 /\ fetched' = r.fetched
                 /\ exit_status' = r.exit
    /\ cli_pc' = "done"
    /\ UNCHANGED <<cli_children, cli_cmd, cli_arg, cli_filters, variant_arg,
                   variant_matches, api_endpoints, filtered_endpoints>>
    /\ UNCHANGED <<pathVars, clientVars, sessVars, auxVars, pageVars, batchVars, opVars>>

\* main SOURCE [--method M] [--query Q] [--path P] [--name N]; an empty
\* --path-to-id or --path-to-detail argument is falsy and leads here as well
MainList ==
    /\ cli_pc = "start"
    /\ cli_cmd = "list" \/ cli_arg = << >>
    /\ \E fetch_exit \in {fetch_api_data(resp).exit : resp \in CurlResponses} :
         IF fetch_exit = "exit1"
         THEN /\ api_endpoints' = << >>
              /\ filtered_endpoints' = << >>
              /\ stdout' = <<Line("extracting", "", 0, << >>), Line("error", "", 0, << >>)>>
              /\ exit_status' = "exit1"
         ELSE LET endpoints == extract_api_endpoints(cli_children)
                  r == main_list(endpoints, cli_filters)
              IN /\ api_endpoints' = endpoints
                 /\ filtered_endpoints' = r.filtered
                 /\ stdout' = r.out
                 /\ exit_status' = r.exit
    /\ cli_pc' = "done"
    /\ UNCHANGED <<cli_children, cli_cmd, cli_arg, cli_filters, api_matches,
                   variant_arg, variant_matches, fetched>>
    /\ UNCHANGED <<pathVars, clientVars, sessVars, auxVars, pageVars, batchVars, opVars>>

\* find_api_id_by_path on the same tree with another spelling of the path
ResolveVariant ==
    /\ cli_pc = "done" /\ cli_cmd = "path_to_id" /\ exit_status = "return"
    /\ cli_arg # << >>
    /\ \E v \in Variants(cli_arg) :
         /\ variant_arg' = v
         /\ variant_matches' = find_api_id_by_path(cli_children, v)
    /\ cli_pc' = "compared"
    /\ UNCHANGED <<cli_children, cli_cmd, cli_arg, cli_filters, api_matches,
                   api_endpoints, filtered_endpoints, stdout, fetched, exit_status>>
    /\ UNCHANGED <<pathVars, clientVars, sessVars, auxVars, pageVars, batchVars, opVars>>

NextCli == MainPathToId \/ MainPathToDetail \/ MainList \/ ResolveVariant

----------------------------------------------------------------------------
(* MagicAPIClassExplorer: _paginate_items and the listings that use it *)

\* most items a listing collects
MaxItems == 5
\* largest --page
MaxPage == 4
\* largest --page-size
MaxPageSize == 3

Min(a, b) == IF a <= b THEN a ELSE b

\* the values of --limit: one that cuts a page short and the default
Limits == {2, 10}

_paginate_items_floor(items, pg, size) ==
    LET total_items == Len(items)
        total_pages == total_items \div size
        start_index == (pg - 1) * size
        end_index == Min(start_index + size, total_items)
    IN IF pg > total_pages
       THEN [items |-> << >>, total_pages |-> total_pages, total_items |-> total_items]
       ELSE [items |-> SubSeq(items, start_index + 1, end_index),
             total_pages |-> total_pages, total_items |-> total_items]

\* (paginated_items, total_pages, total_items); items[start:end] is the
\* subsequence from position start + 1 to position end
_paginate_items(items, pg, size) ==
    LET total_items == Len(items)
        total_pages == (total_items + size - 1) \div size
        start_index == (pg - 1) * size
        end_index == Min(start_index + size, total_items)
    IN IF pg > total_pages
       THEN [items |-> << >>, total_pages |-> total_pages, total_items |-> total_items]
       ELSE [items |-> SubSeq(items, start_index + 1, end_index),
             total_pages |-> total_pages, total_items |-> total_items]

\* paginated_items[:limit] when the page is longer than limit
ApplyLimit(items, lim) == IF Len(items) > lim THEN SubSeq(items, 1, lim) ELSE items

\* what a listing says when the page it is to print is empty
EmptyPageMessage(shown, pg, total_pages) ==
    IF shown # << >> THEN "items"
    ELSE IF pg > total_pages THEN "page_does_not_exist"
    ELSE "no_results"

NoPage == [items |-> << >>, total_pages |-> 0, total_items |-> 0]

PageInit ==
    /\ all_items \in {[i \in 1..n |-> i] : n \in 0..MaxItems}
    /\ page \in 1..MaxPage
    /\ page_size \in 1..MaxPageSize
    /\ limit \in Limits
    /\ pg_pc = "start" /\ pg_op = "none"
    /\ paginated = NoPage /\ pg_shown = << >> /\ pg_message = "none"

\* no listing takes part in a run
PageIdle ==
    /\ all_items = << >> /\ page = 1 /\ page_size = 1 /\ limit = 10
    /\ pg_pc = "off" /\ pg_op = "none"
    /\ paginated = NoPage /\ pg_shown = << >> /\ pg_message = "none"

\* list_all_classes(limit, page, page_size), text output
ListAllClasses ==
    /\ pg_pc = "start"
    /\ LET r == _paginate_items(all_items, page, page_size)
           shown == ApplyLimit(r.items, limit)
       IN /\ paginated' = r
          /\ pg_shown' = shown
          /\ pg_message' = EmptyPageMessage(shown, page, r.total_pages)
    /\ pg_op' = "list_all_classes"
    /\ pg_pc' = "done"
    /\ UNCHANGED <<all_items, page, page_size, limit>>
    /\ UNCHANGED <<pathVars, clientVars, sessVars, auxVars, cliVars, batchVars, opVars>>

\* search_classes_txt(keyword, limit, page, page_size), text output, the
\* matches already collected
SearchClassesTxt ==
    /\ pg_pc = "start"
    /\ LET r == _paginate_items(all_items, page, page_size)
           shown == ApplyLimit(r.items, limit)
       IN /\ paginated' = r
          /\ pg_shown' = shown
          /\ pg_message' = EmptyPageMessage(shown, page, r.total_pages)
    /\ pg_op' = "search_classes_txt"
    /\ pg_pc' = "done"
    /\ UNCHANGED <<all_items, page, page_size, limit>>
    /\ UNCHANGED <<pathVars, clientVars, sessVars, auxVars, cliVars, batchVars, opVars>>

NextPage == ListAllClasses \/ SearchClassesTxt

----------------------------------------------------------------------------
(* Batch commands of the resource manager CLI:                             *)
(* --batch-create-groups, --batch-create-apis, --batch-delete-resources    *)

\* most items in a batch file
MaxBatch == 3

BatchKinds == {"batch_create_groups", "batch_create_apis", "batch_delete_resources"}

\* what the request for an item will meet: success, an API-level error, or a
\* failed transport
ItemOutcomes == {"ok", "api_error", "network_error"}

BatchFiles == UNION {[1..n -> ItemOutcomes] : n \in 0..MaxBatch}

NoBatchResult == [successful |-> 0, failed |-> 0, results |-> << >>]

batch_finished_stop_on_failure(next, items, result) ==
    next > Len(items) \/ result.failed > 0

\* the batch tool goes on until every item has been attempted
batch_finished(next, items, result) == next > Len(items)

\* the entry the batch tool records for an item
ItemResult(i, outcome) == [item |-> i, ok |-> (outcome = "ok"), error |-> outcome # "ok"]

\* main's report of the aggregate: success when anything succeeded, with a
\* warning and the failed items when something failed as well
batch_report_of(result) ==
    IF result.successful > 0
    THEN [status |-> "completed",
          warned |-> IF result.failed > 0 THEN result.failed ELSE 0,
          errors |-> IF result.failed > 0
                     THEN SelectSeq(result.results, LAMBDA r : r.error)
                     ELSE << >>]
    ELSE [status |-> "failed", warned |-> 0, errors |-> << >>]

NoReport == [status |-> "none", warned |-> 0, errors |-> << >>]

BatchInit ==
    /\ batch_kind \in BatchKinds
    /\ batch_items \in BatchFiles
    /\ batch_pc = "start"
    /\ batch_next = 1
    /\ batch_attempts = [i \in DOMAIN batch_items |-> 0]
    /\ batch_applied = {}
    /\ batch_result = NoBatchResult
    /\ batch_report = NoReport

\* no batch command takes part in a run
BatchIdle ==
    /\ batch_kind = "off" /\ batch_items = << >> /\ batch_pc = "start"
    /\ batch_next = 1 /\ batch_attempts = << >> /\ batch_applied = {}
    /\ batch_result = NoBatchResult /\ batch_report = NoReport

\* main reads the batch file and hands its items to the batch tool; a missing
\* or malformed file ends the command with a message
BatchStart ==
    /\ batch_pc = "start"
    /\ \E file \in {"ok", "missing", "bad_json"} :
         IF file = "ok"
         THEN batch_pc' = "running" /\ batch_report' = batch_report
         ELSE batch_pc' = "reported"
              /\ batch_report' = [status |-> file, warned |-> 0, errors |-> << >>]
    /\ UNCHANGED <<batch_kind, batch_items, batch_next, batch_attempts, batch_applied,
                   batch_result>>
    /\ UNCHANGED <<pathVars, clientVars, sessVars, auxVars, cliVars, pageVars, opVars>>

\* the batch tool attempts the next item with one request and records its outcome
BatchAttempt ==
    /\ batch_pc = "running"
    /\ ~batch_finished(batch_next, batch_items, batch_result)
    /\ LET i == batch_next
           outcome == batch_items[i]
       IN /\ batch_attempts' = [batch_attempts EXCEPT ![i] = @ + 1]
          /\ batch_applied' = IF outcome = "ok" THEN batch_applied \cup {i}
                              ELSE batch_applied
          /\ batch_result' =
                [successful |-> batch_result.successful + (IF outcome = "ok" THEN 1 ELSE 0),
                 failed |-> batch_result.failed + (IF outcome = "ok" THEN 0 ELSE 1),
                 results |-> Append(batch_result.results, ItemResult(i, outcome))]
          /\ batch_next' = i + 1
    /\ UNCHANGED <<batch_kind, batch_items, batch_pc, batch_report>>
    /\ UNCHANGED <<pathVars, clientVars, sessVars, auxVars, cliVars, pageVars, opVars>>

\* the batch tool returns the aggregate and main prints it
BatchReport ==
    /\ batch_pc = "running"
    /\ batch_finished(batch_next, batch_items, batch_result)
    /\ batch_report' = batch_report_of(batch_result)
    /\ batch_pc' = "reported"
    /\ UNCHANGED <<batch_kind, batch_items, batch_next, batch_attempts, batch_applied,
                   batch_result>>
    /\ UNCHANGED <<pathVars, clientVars, sessVars, auxVars, cliVars, pageVars, opVars>>

NextBatch == BatchStart \/ BatchAttempt \/ BatchReport

----------------------------------------------------------------------------
(* Single backend operations: rollback_backup, search, fetch_file_detail *)

\* response.raise_for_status() and response.json() of a requests call: TRUE when
\* the call ends in the except branch for requests.RequestException
RequestFailed(o) ==
    \/ IsException(o)
    \/ o.transport # "200"
    \/ (o.body = "not_json" /\ o.json_error_is_request_exception)

\* rollback_backup returns the envelope's data when code == 1, else False
rollback_backup_return(o) ==
    IF RequestFailed(o) THEN "False"
    ELSE IF o.body = "not_json" THEN "raise"
    ELSE IF o.body = "json_code1" THEN "data" ELSE "False"

\* search sends nothing for a blank keyword
search_sent(keyword_blank) == IF keyword_blank THEN 0 ELSE 1

\* search returns the envelope's data (cut to limit) when code == 1, else []
search_return(keyword_blank, o) ==
    IF keyword_blank THEN "[]"
    ELSE IF RequestFailed(o) THEN "[]"
    ELSE IF o.body = "not_json" THEN "raise"
    ELSE IF o.body = "json_code1" THEN "data" ELSE "[]"

\* what curl -s brought back, as an outcome: curl does not pass the HTTP status on
CurlOutcome(resp, status) ==
    [transport |-> IF resp = "curl_failed" THEN "ConnectionError" ELSE status,
     body |-> CASE resp = "code1" -> "json_code1"
                [] resp = "code0" -> "json_code0"
                [] resp = "not_json" -> "not_json"
                [] OTHER -> "empty",
     json_error_is_request_exception |-> FALSE]

NoOp == [op |-> "none", sent |-> 0, outcome |-> NoOutcome, ret |-> "none",
         exit |-> "none"]

OpInit == op_count = 0 /\ op_last = NoOp

\* no single operation takes part in a run
OpIdle == op_count = 0 /\ op_last = [NoOp EXCEPT !.op = "off"]

\* MagicAPIBackupClient.rollback_backup
RollbackBackup ==
    /\ op_count < MaxCalls
    /\ \E o \in Outcomes :
         op_last' = [op |-> "rollback_backup", sent |-> 1, outcome |-> o,
                     ret |-> rollback_backup_return(o), exit |-> "none"]
    /\ op_count' = op_count + 1
    /\ UNCHANGED <<pathVars, clientVars, sessVars, auxVars, cliVars, pageVars, batchVars>>

\* MagicAPISearchClient.search
Search ==
    /\ op_count < MaxCalls
    /\ \E keyword_blank \in BOOLEAN, o \in Outcomes :
         op_last' = [op |-> "search", sent |-> search_sent(keyword_blank),
                     outcome |-> IF keyword_blank THEN NoOutcome ELSE o,
                     ret |-> search_return(keyword_blank, o), exit |-> "none"]
    /\ op_count' = op_count + 1
    /\ UNCHANGED <<pathVars, clientVars, sessVars, auxVars, cliVars, pageVars, batchVars>>

\* fetch_file_detail(file_id, base_url), as main --detail ID runs it
FetchFileDetail ==
    /\ op_count < MaxCalls
    /\ \E resp \in CurlResponses, status \in {"200", "500"} :
         LET d == fetch_file_detail(resp)
         IN op_last' = [op |-> "fetch_file_detail", sent |-> d.sent,
                        outcome |-> CurlOutcome(resp, status),
                        ret |-> d.ret, exit |-> d.exit]
    /\ op_count' = op_count + 1
    /\ UNCHANGED <<pathVars, clientVars, sessVars, auxVars, cliVars, pageVars, batchVars>>

NextOps == RollbackBackup \/ Search \/ FetchFileDetail

----------------------------------------------------------------------------
(* MagicAPIWebSocketClient: connect, login, the listener loop and close,   *)
(* driven by the coroutines of main and run_custom_api_call                *)

\* most messages the server pushes in one run
MaxMsgs == 2

\* self.username: None, the empty text, or a name
NoUser == "None"
Usernames == {NoUser, "", "admin"}

\* f"login,{self.username or 'unauthorization'},{self.client_id}": the three
\* fields of the comma-joined text
login_message_no_placeholder(username, client_id) == <<"login", username, client_id>>

login_message(username, client_id) ==
    <<"login", IF username \in {NoUser, ""} THEN Placeholder ELSE username, client_id>>

\* the heartbeat answer, a text of one field
Pong == <<"pong">>

\* message.split(',', 1): parts[0], and parts[1] or "" when there is no comma
RECURSIVE BeforeComma(_)
BeforeComma(s) ==
    IF s = << >> THEN << >>
    ELSE IF Head(s) = "," THEN << >>
    ELSE <<Head(s)>> \o BeforeComma(Tail(s))

RECURSIVE AfterComma(_)
AfterComma(s) ==
    IF s = << >> THEN << >>
    ELSE IF Head(s) = "," THEN Tail(s)
    ELSE AfterComma(Tail(s))

TypeLOG == <<"L", "O", "G">>
TypeLOGS == <<"L", "O", "G", "S">>
TypePING == <<"P", "I", "N", "G">>
TypeLOGIN_RESPONSE ==
    <<"L", "O", "G", "I", "N", "_", "R", "E", "S", "P", "O", "N", "S", "E">>
TypeONLINE_USERS == <<"O", "N", "L", "I", "N", "E", "_", "U", "S", "E", "R", "S">>

\* json.loads(content) followed by the loop over its value: a list is printed
\* item by item, a truncated document raises JSONDecodeError, and a number
\* raises TypeError in the for statement
json_loads(content) ==
    CASE content = <<"[", "]">> -> "list"
      [] content = <<"1">> -> "int"
      [] OTHER -> "JSONDecodeError"

handle_message_case_sensitive(message, send_raises) ==
    LET message_type == BeforeComma(message)
        content == AfterComma(message)
    IN IF message_type = TypeLOG THEN [send |-> << >>, caught |-> FALSE]
       ELSE IF message_type = TypeLOGS
            THEN [send |-> << >>, caught |-> json_loads(content) = "int"]
       ELSE IF message_type = TypePING
            THEN [send |-> <<Pong>>, caught |-> send_raises]
       ELSE IF message_type \in {TypeLOGIN_RESPONSE, TypeONLINE_USERS}
            THEN [send |-> << >>, caught |-> FALSE]
       ELSE [send |-> << >>, caught |-> FALSE]

\* handle_message: the frames it passes to websocket.send, and whether its own
\* except clause caught an exception (which it prints); nothing leaves it
handle_message(message, send_raises) ==
    LET message_type == UpperText(BeforeComma(message))
        content == AfterComma(message)
    IN IF message_type = TypeLOG THEN [send |-> << >>, caught |-> FALSE]
       ELSE IF message_type = TypeLOGS
            THEN [send |-> << >>, caught |-> json_loads(content) = "int"]
       ELSE IF message_type = TypePING
            THEN [send |-> <<Pong>>, caught |-> send_raises]
       ELSE IF message_type \in {TypeLOGIN_RESPONSE, TypeONLINE_USERS}
            THEN [send |-> << >>, caught |-> FALSE]
       ELSE [send |-> << >>, caught |-> FALSE]

\* the messages a server pushes
ServerMessages ==
    { <<"P", "I", "N", "G">>,
      <<"p", "i", "n", "g", ",", "1">>,
      <<"L", "O", "G", ",", "a">>,
      <<"l", "o", "g", "s", ",", "[", "]">>,
      <<"L", "O", "G", "S", ",", "[">>,
      <<"L", "O", "G", "S", ",", "1">>,
      TypeLOGIN_RESPONSE \o <<",", "1">>,
      TypeONLINE_USERS \o <<",", "[", "]">>,
      <<"p", "o", "n", "g">>,
      <<",", "P", "I", "N", "G">> }

\* the messages pushed while a foreground call runs: a heartbeat and a log line
ForegroundMessages == { <<"P", "I", "N", "G">>, <<"L", "O", "G", ",", "a">> }

ScriptsOver(messages) == UNION {[1..n -> messages] : n \in 0..MaxMsgs}

\* the answers the foreground call meets
CallOutcomes ==
    {o \in Outcomes : /\ o.transport \in {"Timeout", "200", "401"}
                      /\ o.body = "json_code1"
                      /\ ~o.json_error_is_request_exception}

close_with_session(ws, session_headers) ==
    [websocket |-> IF ws # "None" THEN "closed" ELSE ws, session_headers |-> NoHeaders]

\* close(): closes self.websocket when there is one; it names nothing else of
\* the client
close(ws, session_headers) ==
    [websocket |-> IF ws # "None" THEN "closed" ELSE ws,
     session_headers |-> session_headers]

\* the listener coroutine is suspended at an await and can be cancelled
ListenerPending == listen_pc \in {"connecting", "login", "listening"}

\* session.request blocks the only thread, so no coroutine runs meanwhile
LoopFree == ~http_inflight

WsInit ==
    /\ ws_mode \in {"listen_only", "main_call", "call_with_websocket"}
    /\ ws_username \in Usernames
    /\ main_pc = "start" /\ listen_pc = "none"
    /\ websocket = "None" /\ connected = FALSE
    /\ ws_script \in IF ws_mode = "listen_only" THEN ScriptsOver(ServerMessages)
                     ELSE ScriptsOver(ForegroundMessages)
    /\ ws_delivered = 0 /\ ws_inbox = << >> /\ ws_nhandled = 0
    /\ ws_sent = << >> /\ http_inflight = FALSE

\* no WebSocket client takes part in a run
WsIdle ==
    /\ ws_mode = "off" /\ ws_username = NoUser
    /\ main_pc = "start" /\ listen_pc = "none"
    /\ websocket = "None" /\ connected = FALSE
    /\ ws_script = << >> /\ ws_delivered = 0 /\ ws_inbox = << >> /\ ws_nhandled = 0
    /\ ws_sent = << >> /\ http_inflight = FALSE

\* main: listen-only mode awaits client.connect(); the call modes start it as a
\* task and sleep
MainStart ==
    /\ ws_mode # "off" /\ cpc = "ready" /\ main_pc = "start"
    /\ listen_pc' = "connecting"
    /\ main_pc' = IF ws_mode = "listen_only" THEN "await_connect" ELSE "sleep_before_call"
    /\ UNCHANGED <<ws_mode, ws_username, websocket, connected, ws_script, ws_delivered,
                   ws_inbox, ws_nhandled, ws_sent, http_inflight>>
    /\ UNCHANGED <<clientVars, notWsVars>>

\* connect(): websockets.connect returns or raises; after it returned the flag
\* is set and login() passes the login message to send
WsConnect ==
    /\ listen_pc = "connecting" /\ LoopFree
    /\ \E established \in BOOLEAN :
         IF established
         THEN /\ websocket' = "open"
              /\ connected' = TRUE
              /\ ws_sent' = Append(ws_sent, login_message(ws_username, ClientId))
              /\ listen_pc' = "login"
         ELSE /\ connected' = FALSE
              /\ listen_pc' = "done"
              /\ UNCHANGED <<websocket, ws_sent>>
    /\ UNCHANGED <<ws_mode, ws_username, main_pc, ws_script, ws_delivered, ws_inbox,
                   ws_nhandled, http_inflight>>
    /\ UNCHANGED <<clientVars, notWsVars>>

\* the send of login() completes and listen_messages starts, or it raises on a
\* connection the server closed and connect()'s except clause clears the flag
WsLogin ==
    /\ listen_pc = "login" /\ LoopFree
    /\ IF websocket = "open"
       THEN listen_pc' = "listening" /\ connected' = connected
       ELSE listen_pc' = "done" /\ connected' = FALSE
    /\ UNCHANGED <<ws_mode, ws_username, main_pc, websocket, ws_script, ws_delivered,
                   ws_inbox, ws_nhandled, ws_sent, http_inflight>>
    /\ UNCHANGED <<clientVars, notWsVars>>

\* the server pushes its next message
ServerSend ==
    /\ websocket = "open" /\ ws_delivered < Len(ws_script)
    /\ ws_inbox' = Append(ws_inbox, ws_script[ws_delivered + 1])
    /\ ws_delivered' = ws_delivered + 1
    /\ UNCHANGED <<ws_mode, ws_username, main_pc, listen_pc, websocket, connected,
                   ws_script, ws_nhandled, ws_sent, http_inflight>>
    /\ UNCHANGED <<clientVars, notWsVars>>

\* the server closes the connection, normally or with an error code
ServerClose ==
    /\ websocket = "open"
    /\ \E how \in {"closed_ok", "closed_error"} : websocket' = how
    /\ UNCHANGED <<ws_mode, ws_username, main_pc, listen_pc, connected, ws_script,
                   ws_delivered, ws_inbox, ws_nhandled, ws_sent, http_inflight>>
    /\ UNCHANGED <<clientVars, notWsVars>>

\* listen_messages: one turn of the async for loop
HandleMessage ==
    /\ listen_pc = "listening" /\ LoopFree /\ ws_inbox # << >>
    /\ LET h == handle_message(Head(ws_inbox), websocket # "open")
       IN ws_sent' = ws_sent \o h.send
    /\ ws_inbox' = Tail(ws_inbox)
    /\ ws_nhandled' = ws_nhandled + 1
    /\ UNCHANGED <<ws_mode, ws_username, main_pc, listen_pc, websocket, connected,
                   ws_script, ws_delivered, http_inflight>>
    /\ UNCHANGED <<clientVars, notWsVars>>

\* listen_messages: the loop ends on a closed connection, either by
\* ConnectionClosed (the flag is cleared) or, after a normal closure, by the
\* iterator running out (the flag is left as it is)
WsListenEnd ==
    /\ listen_pc = "listening" /\ LoopFree /\ ws_inbox = << >>
    /\ websocket \in {"closed_ok", "closed_error"}
    /\ \E raised \in BOOLEAN :
         /\ websocket = "closed_error" => raised
         /\ connected' = IF raised THEN FALSE ELSE connected
    /\ listen_pc' = "done"
    /\ UNCHANGED <<ws_mode, ws_username, main_pc, websocket, ws_script, ws_delivered,
                   ws_inbox, ws_nhandled, ws_sent, http_inflight>>
    /\ UNCHANGED <<clientVars, notWsVars>>

\* call_api: session.request leaves and the thread waits for the answer
MainCallApiSend ==
    /\ main_pc \in {"sleep_before_call", "fallback"}
    /\ http_inflight' = TRUE
    /\ main_pc' = IF main_pc = "fallback" THEN "fallback_call_api" ELSE "call_api"
    /\ UNCHANGED <<ws_mode, ws_username, listen_pc, websocket, connected, ws_script,
                   ws_delivered, ws_inbox, ws_nhandled, ws_sent>>
    /\ UNCHANGED <<clientVars, notWsVars>>

\* call_api: the answer arrives and call_api returns
MainCallApiReturn ==
    /\ main_pc \in {"call_api", "fallback_call_api"}
    /\ \E o \in CallOutcomes :
         lastCall' =
            [op |-> "call_api",
             sent |-> call_api_sent(
                         Request("call_api", "GET",
                                 call_api_headers(ClientId, CallerHeaders)), o),
             outcome |-> o,
             ret |-> call_api_return(o)]
    /\ ncalls' = ncalls + 1
    /\ http_inflight' = FALSE
    /\ main_pc' = IF main_pc = "call_api" THEN "sleep_after_call" ELSE "finished"
    /\ UNCHANGED <<ckind, cpc, ccreds, csession, cloginposts, cloginresp>>
    /\ UNCHANGED <<ws_mode, ws_username, listen_pc, websocket, connected, ws_script,
                   ws_delivered, ws_inbox, ws_nhandled, ws_sent>>
    /\ UNCHANGED notWsVars

\* listen_task.cancel() and await listen_task: CancelledError is raised at the
\* listener's await and passes its except Exception clauses; main reaches this
\* in its finally clause, run_custom_api_call after its second sleep
MainCancel ==
    /\ \/ ws_mode = "main_call" /\ main_pc \in {"sleep_before_call", "sleep_after_call"}
       \/ ws_mode = "call_with_websocket" /\ main_pc = "sleep_after_call"
    /\ listen_pc' = IF ListenerPending THEN "cancelled" ELSE listen_pc
    /\ main_pc' = "close"
    /\ UNCHANGED <<ws_mode, ws_username, websocket, connected, ws_script, ws_delivered,
                   ws_inbox, ws_nhandled, ws_sent, http_inflight>>
    /\ UNCHANGED <<clientVars, notWsVars>>

\* listen_only_mode: connect() returned, or the run was interrupted while it
\* was suspended; either way the finally clause follows
ListenOnlyEnd ==
    /\ ws_mode = "listen_only" /\ main_pc = "await_connect"
    /\ listen_pc' = IF ListenerPending THEN "cancelled" ELSE listen_pc
    /\ main_pc' = "close"
    /\ UNCHANGED <<ws_mode, ws_username, websocket, connected, ws_script, ws_delivered,
                   ws_inbox, ws_nhandled, ws_sent, http_inflight>>
    /\ UNCHANGED <<clientVars, notWsVars>>

\* await client.close(); run_custom_api_call falls back to a plain call_api
\* when its WebSocket run raised
MainClose ==
    /\ main_pc = "close"
    /\ LET c == close(websocket, csession)
       IN websocket' = c.websocket /\ csession' = c.session_headers
    /\ \E raised \in BOOLEAN :
         main_pc' = IF ws_mode = "call_with_websocket" /\ raised
                    THEN "fallback" ELSE "finished"
    /\ UNCHANGED <<ckind, cpc, ccreds, cloginposts, cloginresp, ncalls, lastCall>>
    /\ UNCHANGED <<ws_mode, ws_username, listen_pc, connected, ws_script, ws_delivered,
                   ws_inbox, ws_nhandled, ws_sent, http_inflight>>
    /\ UNCHANGED notWsVars

NextWs ==
    \/ Construct \/ MainStart \/ WsConnect \/ WsLogin \/ ServerSend \/ ServerClose
    \/ HandleMessage \/ WsListenEnd \/ MainCallApiSend \/ MainCallApiReturn
    \/ MainCancel \/ ListenOnlyEnd \/ MainClose

----------------------------------------------------------------------------
(* main of cli/magic_api_resource_manager.py: the argument loop and the     *)
(* chain that picks the operation to run                                    *)

\* the words of a command line that start with "--"
OptionWords ==
    {"--create-api", "--create-group", "--delete", "--list-tree", "--list-groups",
     "--stats", "--bogus"}

\* sys.argv[i + 1].startswith('--')
StartsWithDashes(word) == word \in OptionWords

TreeTypes == {"all", "api", "function", "task", "datasource"}

\* actions as main initialises it: None is "None" for a text and << >> for the
\* dictionary of --create-api; exit is set when the loop called sys.exit(1)
NoActions ==
    [create_group |-> "None", delete_resource |-> "None", list_tree |-> FALSE,
     list_tree_type |-> "api", list_groups |-> FALSE, create_api |-> << >>,
     get_stats |-> FALSE, exit |-> FALSE]

\* the while loop over sys.argv, for the options of these runs; argv is
\* sys.argv[1:], so i + k < len(sys.argv) reads i + k <= Len(argv)
RECURSIVE parse_args(_, _, _)
parse_args(argv, i, actions) ==
    IF i > Len(argv) THEN actions
    ELSE LET arg == argv[i]
         IN IF arg = "--create-group" /\ i + 1 <= Len(argv)
            THEN parse_args(argv, i + 2, [actions EXCEPT !.create_group = argv[i + 1]])
            ELSE IF arg = "--delete" /\ i + 1 <= Len(argv)
            THEN parse_args(argv, i + 2,
                            [actions EXCEPT !.delete_resource = argv[i + 1]])
            ELSE IF arg = "--list-tree"
            THEN IF i + 1 <= Len(argv) /\ ~StartsWithDashes(argv[i + 1])
                 THEN IF argv[i + 1] \in TreeTypes
                      THEN parse_args(argv, i + 2,
                                      [actions EXCEPT !.list_tree = TRUE,
                                                      !.list_tree_type = argv[i + 1]])
                      ELSE parse_args(argv, i + 1, [actions EXCEPT !.list_tree = TRUE])
                 ELSE parse_args(argv, i + 1, [actions EXCEPT !.list_tree = TRUE])
            ELSE IF arg = "--list-groups"
            THEN parse_args(argv, i + 1, [actions EXCEPT !.list_groups = TRUE])
            ELSE IF arg = "--create-api" /\ i + 5 <= Len(argv)
            THEN parse_args(argv, i + 6,
                            [actions EXCEPT !.create_api = SubSeq(argv, i + 1, i + 5)])
            ELSE IF arg = "--stats"
            THEN parse_args(argv, i + 1, [actions EXCEPT !.get_stats = TRUE])
            ELSE [actions EXCEPT !.exit = TRUE]

NoRmCall == [op |-> "none", args |-> << >>]

\* the if / elif chain of main: the tree listing and the group listing return
\* first; the branch for create_api stands inside a comment line, so the next
\* chain starts at create_group and ends in the default tree listing
dispatch(actions) ==
    IF actions.list_tree
    THEN [op |-> "get_resource_tree", args |-> <<actions.list_tree_type>>]
    ELSE IF actions.list_groups THEN [op |-> "list_groups", args |-> << >>]
    ELSE IF actions.create_group # "None"
    THEN [op |-> "create_group", args |-> <<actions.create_group>>]
    ELSE IF actions.delete_resource # "None"
    THEN [op |-> "delete_resource", args |-> <<actions.delete_resource>>]
    ELSE IF actions.get_stats THEN [op |-> "get_resource_stats_tool", args |-> << >>]
    ELSE [op |-> "get_resource_tree", args |-> << >>]

\* --create-api GID NAME METH PATH SCRIPT
CreateApiWords ==
    {<<"--create-api", gid, name, meth, path, script>> :
        gid \in {"g1", "g2"}, name \in {"n1", "n2"}, meth \in {"GET", "POST"},
        path \in {"/p", "/q"}, script \in {"return 1;", "return 2;"}}

RmCommandLines ==
    CreateApiWords
    \cup {<<"--list-tree">> \o c : c \in CreateApiWords}
    \cup {c \o <<"--list-groups">> : c \in CreateApiWords}
    \cup {c \o <<"--create-group", "grp">> : c \in CreateApiWords}
    \cup {c \o <<"--stats">> : c \in CreateApiWords}
    \cup {SubSeq(c, 1, 5) : c \in CreateApiWords}
    \cup {<< >>, <<"--stats">>, <<"--delete", "id1">>, <<"--list-tree", "api">>,
          <<"--list-tree", "apis">>, <<"--bogus">>}

RmInit ==
    /\ rm_argv \in RmCommandLines
    /\ rm_pc = "start" /\ rm_actions = NoActions /\ rm_call = NoRmCall

\* the resource manager CLI takes no part in a run
RmIdle ==
    /\ rm_argv = << >> /\ rm_pc = "off" /\ rm_actions = NoActions /\ rm_call = NoRmCall

\* main: the argument loop; an option it does not know ends the process
RmParseArgs ==
    /\ rm_pc = "start"
    /\ rm_actions' = parse_args(rm_argv, 1, NoActions)
    /\ rm_pc' = IF rm_actions'.exit THEN "exit1" ELSE "parsed"
    /\ UNCHANGED <<rm_argv, rm_call>>
    /\ UNCHANGED notRmVars

\* main: the manager is built and the chain runs one operation
RmDispatch ==
    /\ rm_pc = "parsed"
    /\ rm_call' = dispatch(rm_actions)
    /\ rm_pc' = "done"
    /\ UNCHANGED <<rm_argv, rm_actions>>
    /\ UNCHANGED notRmVars

NextRm == RmParseArgs \/ RmDispatch

----------------------------------------------------------------------------
(* Browsing a listing: the same command with --page 1, 2, ... up to the    *)
(* total_pages it reports                                                   *)

BrowsedListings == {"list_all_classes", "search_enhanced", "search_classes_txt"}

\* what one call of a listing displays: the page _paginate_items returns, cut
\* to limit
displayed_page(items, lim, pg, size) == ApplyLimit(_paginate_items(items, pg, size).items, lim)

BrowseInit ==
    /\ br_op \in BrowsedListings
    /\ br_items \in {[i \in 1..n |-> i] : n \in 0..MaxItems}
    /\ br_page_size \in 1..MaxPageSize
    /\ br_limit \in 1..(MaxPageSize + 1)
    /\ br_next = 1 /\ br_total_pages = 0 /\ br_displayed = << >>

\* no listing is browsed in a run
BrowseIdle ==
    /\ br_op = "off" /\ br_items = << >> /\ br_page_size = 1 /\ br_limit = 10
    /\ br_next = 1 /\ br_total_pages = 0 /\ br_displayed = << >>

\* the next call is page 1 or a page the last call announced
MorePages == br_next = 1 \/ br_next <= br_total_pages

\* list_all_classes(limit, page, page_size) for the next page
BrowseListAllClasses ==
    /\ br_op = "list_all_classes" /\ MorePages
    /\ br_displayed' =
          br_displayed \o displayed_page(br_items, br_limit, br_next, br_page_size)
    /\ br_total_pages' = _paginate_items(br_items, br_next, br_page_size).total_pages
    /\ br_next' = br_next + 1
    /\ UNCHANGED <<br_op, br_items, br_page_size, br_limit>>
    /\ UNCHANGED notBrowseVars

\* search_enhanced(pattern, ..., limit, page, page_size) for the next page,
\* the matches collected as before
BrowseSearchEnhanced ==
    /\ br_op = "search_enhanced" /\ MorePages
    /\ br_displayed' =
          br_displayed \o displayed_page(br_items, br_limit, br_next, br_page_size)
    /\ br_total_pages' = _paginate_items(br_items, br_next, br_page_size).total_pages
    /\ br_next' = br_next + 1
    /\ UNCHANGED <<br_op, br_items, br_page_size, br_limit>>
    /\ UNCHANGED notBrowseVars

\* search_classes_txt(keyword, ..., limit, page, page_size) for the next page
BrowseSearchClassesTxt ==
    /\ br_op = "search_classes_txt" /\ MorePages
    /\ br_displayed' =
          br_displayed \o displayed_page(br_items, br_limit, br_next, br_page_size)
    /\ br_total_pages' = _paginate_items(br_items, br_next, br_page_size).total_pages
    /\ br_next' = br_next + 1
    /\ UNCHANGED <<br_op, br_items, br_page_size, br_limit>>
    /\ UNCHANGED notBrowseVars

NextBrowse == BrowseListAllClasses \/ BrowseSearchEnhanced \/ BrowseSearchClassesTxt

----------------------------------------------------------------------------
(* run_mcp.py: the ways the server process ends and what each cleans up     *)

\* a manager of the context: absent, without the method, or with a method
\* that returns or raises
Managers == {"None", "no_method", "ok", "raises"}

\* the managers a process without a context is described with
NoManager == "None"

\* whether the guard `manager and hasattr(manager, method)` lets the call happen
HasMethod(manager) == manager \in {"ok", "raises"}

\* one guarded call inside its own try block
Attempt(method, manager) ==
    IF HasMethod(manager)
    THEN <<[call |-> method, raised |-> manager = "raises"]>>
    ELSE << >>

_cleanup_resources_one_try(context, ws_manager, resource_manager) ==
    IF ~context THEN [calls |-> << >>, escaped |-> FALSE]
    ELSE [calls |-> IF ws_manager = "raises" THEN Attempt("stop_sync", ws_manager)
                    ELSE Attempt("stop_sync", ws_manager)
                         \o Attempt("close", resource_manager),
          escaped |-> FALSE]

\* _cleanup_resources(): with a context, stop_sync in one try block and then
\* close in another; both except clauses print and go on
_cleanup_resources(context, ws_manager, resource_manager) ==
    IF ~context THEN [calls |-> << >>, escaped |-> FALSE]
    ELSE [calls |-> Attempt("stop_sync", ws_manager) \o Attempt("close", resource_manager),
          escaped |-> FALSE]

ShutdownInit ==
    /\ sd_context \in BOOLEAN
    /\ sd_ws_manager \in Managers /\ sd_resource_manager \in Managers
    /\ (~sd_context => sd_ws_manager = NoManager /\ sd_resource_manager = NoManager)
    /\ sd_pc = "serving" /\ sd_path = "none" /\ sd_exit = "none"
    /\ sd_calls = << >> /\ sd_last = << >> /\ sd_escaped = FALSE

\* no server process takes part in a run
ShutdownIdle ==
    /\ sd_context = FALSE
    /\ sd_ws_manager = NoManager /\ sd_resource_manager = NoManager
    /\ sd_pc = "off" /\ sd_path = "none" /\ sd_exit = "none"
    /\ sd_calls = << >> /\ sd_last = << >> /\ sd_escaped = FALSE

\* the state after one run of _cleanup_resources
Cleaned ==
    LET c == _cleanup_resources(sd_context, sd_ws_manager, sd_resource_manager)
    IN /\ sd_calls' = sd_calls \o c.calls
       /\ sd_last' = c.calls
       /\ sd_escaped' = (sd_escaped \/ c.escaped)

\* signal_handler(sig, frame) for SIGINT and SIGTERM: cleanup, then sys.exit(0)
SignalHandler ==
    /\ sd_pc = "serving"
    /\ \E sig \in {"SIGINT", "SIGTERM"} : sd_path' = sig
    /\ Cleaned
    /\ sd_exit' = "0"
    /\ sd_pc' = "exiting"
    /\ UNCHANGED <<sd_context, sd_ws_manager, sd_resource_manager>>
    /\ UNCHANGED notShutdownVars

\* except KeyboardInterrupt: signal_handler(None, None)
KeyboardInterruptCaught ==
    /\ sd_pc = "serving"
    /\ sd_path' = "KeyboardInterrupt"
    /\ Cleaned
    /\ sd_exit' = "0"
    /\ sd_pc' = "exiting"
    /\ UNCHANGED <<sd_context, sd_ws_manager, sd_resource_manager>>
    /\ UNCHANGED notShutdownVars

\* except Exception: the error is printed, cleanup, then sys.exit(1)
ServerError ==
    /\ sd_pc = "serving"
    /\ sd_path' = "server_error"
    /\ Cleaned
    /\ sd_exit' = "1"
    /\ sd_pc' = "exiting"
    /\ UNCHANGED <<sd_context, sd_ws_manager, sd_resource_manager>>
    /\ UNCHANGED notShutdownVars

\* mcp.run returns and the module ends
ServerReturns ==
    /\ sd_pc = "serving"
    /\ sd_path' = "return"
    /\ sd_pc' = "exiting"
    /\ UNCHANGED <<sd_context, sd_ws_manager, sd_resource_manager, sd_exit, sd_calls,
                   sd_last, sd_escaped>>
    /\ UNCHANGED notShutdownVars

\* the interpreter exits and runs the registered cleanup_on_exit
AtExit ==
    /\ sd_pc = "exiting"
    /\ Cleaned
    /\ sd_pc' = "exited"
    /\ UNCHANGED <<sd_context, sd_ws_manager, sd_resource_manager, sd_path, sd_exit>>
    /\ UNCHANGED notShutdownVars

NextShutdown ==
    SignalHandler \/ KeyboardInterruptCaught \/ ServerError \/ ServerReturns \/ AtExit

----------------------------------------------------------------------------
(* MagicAPIClassClient.__init__: the base URL                               *)

\* longest host text given as base_url
MaxUrlLen == 3

UrlChars == {"h", "t", "s", ":", "/", "a"}

RECURSIVE UrlTextsOfLen(_)
UrlTextsOfLen(n) ==
    IF n = 0 THEN {<< >>}
    ELSE {<<c>> \o t : c \in UrlChars, t \in UrlTextsOfLen(n - 1)}

HttpPrefix == <<"h", "t", "t", "p", ":", "/", "/">>
HttpsPrefix == <<"h", "t", "t", "p", "s", ":", "/", "/">>

\* the arguments: a bare host, or a host after http:// or https://
BaseUrls ==
    LET hosts == UNION {UrlTextsOfLen(k) : k \in 0..MaxUrlLen}
    IN hosts \cup {HttpPrefix \o t : t \in hosts} \cup {HttpsPrefix \o t : t \in hosts}

\* the characters of a text
CharsOf(text) == {text[i] : i \in DOMAIN text}

\* str.lstrip(chars): leading characters are dropped while they are among chars
RECURSIVE lstrip(_, _)
lstrip(s, chars) ==
    IF s # << >> /\ Head(s) \in CharsOf(chars) THEN lstrip(Tail(s), chars) ELSE s

\* settings.base_url, used when no base_url is given
SettingsBaseUrl == HttpPrefix \o <<"a">>

\* __init__: base_url.rstrip("/"), and for a text that starts with neither
\* scheme 'http://' + text.lstrip('http://').lstrip('https://')
class_client_base_url(base_url) ==
    IF base_url # << >>
    THEN LET stripped == RStrip(base_url)
         IN IF ~(StartsWith(stripped, HttpPrefix) \/ StartsWith(stripped, HttpsPrefix))
            THEN HttpPrefix \o lstrip(lstrip(stripped, HttpPrefix), HttpsPrefix)
            ELSE stripped
    ELSE SettingsBaseUrl

UrlInit == url_input \in BaseUrls /\ url_pc = "new" /\ url_base = << >>

\* no class client is constructed in a run
UrlIdle == url_input = << >> /\ url_pc = "off" /\ url_base = << >>

\* MagicAPIClassClient(base_url)
ClassClientInit ==
    /\ url_pc = "new"
    /\ url_base' = class_client_base_url(url_input)
    /\ url_pc' = "ready"
    /\ UNCHANGED url_input
    /\ UNCHANGED notUrlVars

NextUrl == ClassClientInit

----------------------------------------------------------------------------
(* The specifications: each runs one part of the toolkit, the others idle *)

AuxIdle == WsIdle /\ RmIdle /\ BrowseIdle /\ ShutdownIdle /\ UrlIdle

ToolIdle == CliIdle /\ PageIdle /\ BatchIdle /\ OpIdle /\ AuxIdle

CoreIdle == PathIdle /\ ClientIdle /\ SessIdle

InitSession == SessInit /\ PathIdle /\ ClientIdle /\ ToolIdle

SpecSession == InitSession /\ [][NextSession]_vars

InitClient == ClientInit /\ PathIdle /\ SessIdle /\ ToolIdle

SpecClient == InitClient /\ [][NextClient]_vars

InitPath == PathInit /\ ClientIdle /\ SessIdle /\ ToolIdle

SpecPath == InitPath /\ [][NextPath]_vars

InitCli == CliInit /\ CoreIdle /\ PageIdle /\ BatchIdle /\ OpIdle /\ AuxIdle

SpecCli == InitCli /\ [][NextCli]_vars

InitPage == PageInit /\ CoreIdle /\ CliIdle /\ BatchIdle /\ OpIdle /\ AuxIdle

SpecPage == InitPage /\ [][NextPage]_vars

InitBatch == BatchInit /\ CoreIdle /\ CliIdle /\ PageIdle /\ OpIdle /\ AuxIdle

SpecBatch == InitBatch /\ [][NextBatch]_vars

InitOps == OpInit /\ CoreIdle /\ CliIdle /\ PageIdle /\ BatchIdle /\ AuxIdle

SpecOps == InitOps /\ [][NextOps]_vars

\* the client the WebSocket runs construct: username and password go to the
\* HTTP client together
InitWs ==
    /\ WsInit /\ ClientInit /\ ckind = "ws"
    /\ (ws_username \in {NoUser, ""} => ~ccreds)
    /\ PathIdle /\ SessIdle /\ CliIdle /\ PageIdle /\ BatchIdle /\ OpIdle
    /\ RmIdle /\ BrowseIdle /\ ShutdownIdle /\ UrlIdle

SpecWs == InitWs /\ [][NextWs]_vars

InitRm ==
    /\ RmInit /\ CoreIdle /\ CliIdle /\ PageIdle /\ BatchIdle /\ OpIdle /\ WsIdle
    /\ BrowseIdle /\ ShutdownIdle /\ UrlIdle

SpecRm == InitRm /\ [][NextRm]_vars

InitBrowse ==
    /\ BrowseInit /\ CoreIdle /\ CliIdle /\ PageIdle /\ BatchIdle /\ OpIdle /\ WsIdle
    /\ RmIdle /\ ShutdownIdle /\ UrlIdle

SpecBrowse == InitBrowse /\ [][NextBrowse]_vars

InitShutdown ==
    /\ ShutdownInit /\ CoreIdle /\ CliIdle /\ PageIdle /\ BatchIdle /\ OpIdle
    /\ WsIdle /\ RmIdle /\ BrowseIdle /\ UrlIdle

SpecShutdown == InitShutdown /\ [][NextShutdown]_vars

InitUrl ==
    /\ UrlInit /\ CoreIdle /\ CliIdle /\ PageIdle /\ BatchIdle /\ OpIdle
    /\ WsIdle /\ RmIdle /\ BrowseIdle /\ ShutdownIdle

SpecUrl == InitUrl /\ [][NextUrl]_vars

----------------------------------------------------------------------------
(* Claims about the path resolver *)

\* every node of the tree with its computed full path, in visiting order
RECURSIVE NodeEntries(_, _)
NodeEntries(children, parent_path) ==
    IF children = << >> THEN << >>
    ELSE LET n == Head(children)
             fp == BuildFullPath(parent_path, n.node.path)
         IN <<[info |-> n.node, full_path |-> fp]>>
            \o NodeEntries(n.children, fp)
            \o NodeEntries(Tail(children), parent_path)

EntrySet == {NodeEntries(api_children, << >>)[i] :
                i \in DOMAIN NodeEntries(api_children, << >>)}

Returned(e) ==
    \E i \in DOMAIN results :
        results[i].id = e.info.id /\ results[i].path = e.full_path

\* the matching policy in the claim's words, F and T being the normalised paths
PolicyHolds(e) ==
    LET F == normalize_path(e.full_path)
        T == normalize_path(target_path)
    IN F = T \/ StartsWith(F, T \o <<"/">>) \/ StartsWith(T, F \o <<"/">>)

\* C9 as stated: a node is returned if and only if it has a method and an id
\* and its normalised full path and the normalised target satisfy the
\* three-way policy.
C9_Original ==
    ppc = "found" =>
        \A e \in EntrySet :
            Returned(e) <=> (e.info.method # "" /\ e.info.id # "" /\ PolicyHolds(e))

\* C9 as amended: a node is returned if and only if it has a method, an id and
\* a non-empty full path, and the normalised paths satisfy the three-way policy;
\* a target that is only a character prefix of the full path does not match.
C9_FindMatchesPolicy ==
    ppc = "found" =>
        \A e \in EntrySet :
            Returned(e) <=> (/\ e.info.method # "" /\ e.info.id # ""
                             /\ e.full_path # << >>
                             /\ PolicyHolds(e))

\* the root "a" is returned by the descendant rule for the target "a/a" while the
\* endpoint "a/ab", of which "a/a" is only a character prefix, is not
C9_Witness ==
    /\ ppc = "found"
    /\ target_path = <<"a", "/", "a">>
    /\ \E e \in EntrySet : e.full_path = <<"a">> /\ Returned(e)
    /\ \E e \in EntrySet :
          /\ e.full_path = <<"a", "/", "a", "b">>
          /\ e.info.method # "" /\ e.info.id # ""
          /\ ~Returned(e)

\* C10: normalize_path and clean_path are idempotent: applying either a second
\* time to its own result gives that result again.
C10_NormalizeIdempotent ==
    napplied = 2 => npath = nfirst

\* a path with a run of three slashes, normalised twice
C10_Witness ==
    /\ napplied = 2
    /\ pmode = "normalize_path"
    /\ ninput = <<"a", "/", "/", "/", "b">>
    /\ npath = <<"a", "/", "b">>

----------------------------------------------------------------------------
(* Claims about the HTTP clients *)

C7_LoginTokenStored ==
    (cpc = "ready" /\ cloginposts = 1 /\ cloginresp.code = 1 /\ cloginresp.token # "")
    => /\ HeaderOf(csession, MagicToken) = cloginresp.token
       /\ \A i \in DOMAIN lastCall.sent : lastCall.sent[i].token = cloginresp.token

\* the resource manager logged in with rm-token-456 and then copied a group
C7_Witness ==
    /\ ckind = "rm" /\ cpc = "ready"
    /\ cloginresp = [code |-> 1, token |-> "rm-token-456"]
    /\ lastCall.op = "copy_group"
    /\ lastCall.sent[1].token = "rm-token-456"

\* C8: no request passes a magic-token header of its own: the headers given to
\* the call never contain magic-token, so the backend sees the session's stored
\* token and never the placeholder.
C8_NoTokenOverride ==
    \A i \in DOMAIN lastCall.sent :
        /\ MagicToken \notin DOMAIN lastCall.sent[i].explicit
        /\ lastCall.sent[i].token = HeaderOf(csession, MagicToken)
        /\ lastCall.sent[i].token # Placeholder

\* call_api sent a request on a session that holds test-token-123
C8_Witness ==
    /\ lastCall.op = "call_api"
    /\ lastCall.sent[1].token = "test-token-123"
    /\ "X-MAGIC-CLIENT-ID" \in DOMAIN lastCall.sent[1].explicit

----------------------------------------------------------------------------
(* Claims about the session manager *)

\* C1: callers that issue requests while the session is Unauthenticated cause
\* exactly one login at the backend, under every interleaving, and when the
\* backend refuses nothing all of them complete successfully with the token
\* that login produced.
C1_SingleFlightLogin ==
    /\ ~sfaults => sloginCalls <= 1
    /\ (/\ screds /\ ~sfaults
        /\ \A c \in Callers : pc[c] = "done" /\ call[c].issuedIn = "Unauthenticated")
       => /\ sloginCalls = 1
          /\ stoken = 1
          /\ \A c \in Callers : call[c].result = "ok" /\ call[c].tok = stoken

\* every caller was blocked on login 1 and completed with its token
C1_Witness ==
    /\ ~sfaults /\ sloginCalls = 1
    /\ \A c \in Callers :
          /\ pc[c] = "done" /\ call[c].issuedIn = "Unauthenticated"
          /\ call[c].obs = [id |-> 1, ok |-> TRUE, token |-> 1]
          /\ call[c].result = "ok" /\ call[c].tok = 1

\* C2: an unauthorized answer causes at most one re-login and one replay of the
\* call; a replay follows exactly one re-login; a second unauthorized answer ends
\* the call with AuthError after two requests and one re-login, and nothing more
\* is issued for it.
C2_AuthRetryBounded ==
    \A c \in Callers :
        LET a == call[c]
        IN /\ a.sent <= 2 /\ a.relogins <= 1 /\ a.authFails <= 2
           /\ a.sent = 2 => (a.authFails >= 1 /\ a.relogins = 1)
           /\ a.relogins = 1 => a.authFails >= 1
           /\ (a.authFails >= 1 /\ a.result \in {"ok", "NetworkError"})
              => (a.sent = 2 /\ a.relogins = 1)
           /\ a.authFails = 2
              => (pc[c] = "done" /\ a.result = "AuthError" /\ a.sent = 2 /\ a.relogins = 1)

\* a call whose replay was refused as well
C2_Witness ==
    \E c \in Callers :
        /\ pc[c] = "done" /\ call[c].authFails = 2 /\ call[c].result = "AuthError"
        /\ call[c].sent = 2 /\ call[c].relogins = 1

\* C3: at most one login is in flight, the session is Reauthenticating exactly
\* then, and the callers blocked on a login all get its one outcome: after a
\* success they send with the same fresh token, after a failure they all end
\* with AuthError.
C3_OneLoginSharedOutcome ==
    /\ Cardinality(sinflight) <= 1
    /\ (sstate = "Reauthenticating") <=> (sinflight # {})
    /\ \A c \in Callers : pc[c] = "waiting" => call[c].waitFor \in sinflight
    /\ \A c, d \in Callers :
          (call[c].obs.id # 0 /\ call[c].obs.id = call[d].obs.id)
          => call[c].obs = call[d].obs
    /\ \A c \in Callers :
          /\ (call[c].obs.id # 0 /\ pc[c] = "inflight") => call[c].tok = call[c].obs.token
          /\ (call[c].obs.id # 0 /\ ~call[c].obs.ok)
             => (pc[c] = "done" /\ call[c].result = "AuthError")

\* two callers were blocked on login 1, which failed for both
C3_Witness ==
    \E c, d \in Callers :
        /\ c # d
        /\ call[c].obs = [id |-> 1, ok |-> FALSE, token |-> 0]
        /\ call[d].obs = call[c].obs
        /\ call[c].result = "AuthError" /\ call[d].result = "AuthError"

\* C4: a failed login leaves the session Failed; while it is Failed no login
\* starts, no request is sent and every call that enters ends at once with
\* AuthError; only a credentials reset leaves Failed.
C4_FailedFailsFast ==
    [][/\ (sinflight' # sinflight /\ sinflight' \subseteq sinflight
           /\ stoken' \notin sinflight)
          => sstate' = "Failed"
       /\ sstate = "Failed"
          => /\ sloginCalls' = sloginCalls /\ sinflight' = sinflight
             /\ \A c \in Callers :
                   /\ call'[c].sent = call[c].sent
                   /\ (pc[c] \in {"issued", "retry", "ready"} /\ pc'[c] # pc[c])
                      => (pc'[c] = "done" /\ call'[c].result = "AuthError")
             /\ sstate' # "Failed" => sresets' = sresets + 1]_vars

\* a call issued to a Failed session ended with AuthError and sent nothing
C4_Witness ==
    /\ sstate = "Failed"
    /\ \E c \in Callers :
          /\ call[c].issuedIn = "Failed" /\ pc[c] = "done"
          /\ call[c].result = "AuthError" /\ call[c].sent = 0 /\ call[c].obs = NoObs

\* C6: with auth disabled and no credentials on the command line no login is
\* ever sent, not even after an unauthorized answer, and every request goes out
\* without a token.
C6_NoLoginWithoutCredentials ==
    (~sauth /\ ~scli)
    => /\ sloginCalls = 0 /\ sinflight = {} /\ stoken = 0
       /\ \A c \in Callers : call[c].tok = 0 /\ call[c].relogins = 0

\* auth is disabled, a request without a token was refused, and no login followed
C6_Witness ==
    /\ ~sauth /\ ~scli /\ sloginCalls = 0
    /\ \E c \in Callers :
          /\ pc[c] = "done" /\ call[c].authFails = 1 /\ call[c].sent = 1
          /\ call[c].result = "AuthError"

----------------------------------------------------------------------------
(* Claims about main of cli/extract_api_paths.py *)

\* every node of the run's tree with its full path, in pre-order: a node, then
\* the subtrees of its children in delivery order
CliEntries == NodeEntries(cli_children, << >>)

\* the place of the node with this id in the pre-order
PreOrderPos(id) == CHOOSE i \in DOMAIN CliEntries : CliEntries[i].info.id = id

\* find_api_id_by_path ran on the fetched tree
Resolved ==
    /\ cli_pc # "start" /\ cli_cmd \in {"path_to_id", "path_to_detail"}
    /\ cli_arg # << >>
    /\ \A k \in DOMAIN stdout : ~(stdout[k].line = "error" /\ stdout[k].id = "")

\* extract_api_endpoints returned and the listing was printed
Listed ==
    /\ cli_pc = "done" /\ (cli_cmd = "list" \/ cli_arg = << >>)
    /\ exit_status = "return"

\* C11: find_api_by_path returns the identical sequence of matches for a path
\* and for every spelling of it that differs only in leading, trailing or
\* repeated slashes.
C11_SlashVariantsSameMatches ==
    cli_pc = "compared" => variant_matches = api_matches

\* "a/a" and "a//a" resolve to the same two endpoints
C11_Witness ==
    /\ cli_pc = "compared"
    /\ cli_arg = <<"a", "/", "a">>
    /\ variant_arg = <<"a", "/", "/", "a">>
    /\ Len(api_matches) = 2
    /\ Len(variant_matches) = 2

NoEndpointMatches ==
    \A k \in DOMAIN CliEntries :
        LET e == CliEntries[k]
            F == normalize_path(e.full_path)
            T == normalize_path(cli_arg)
        IN ~(/\ e.info.method # "" /\ e.info.id # "" /\ e.full_path # << >>
             /\ (F = T \/ StartsWith(F, T \o <<"/">>) \/ StartsWith(T, F \o <<"/">>)))

\* C13: when no endpoint satisfies the matching policy the resolver returns an
\* empty sequence, and main reports not-found and returns normally: nothing is
\* fetched and the process is not terminated.
C13_NoMatchIsNotAnError ==
    (Resolved /\ NoEndpointMatches)
    => /\ api_matches = << >>
       /\ exit_status = "return"
       /\ fetched = << >>
       /\ stdout[Len(stdout)].line = "not_found"

\* --path-to-detail b on a tree whose endpoints all lie under "a"
C13_Witness ==
    /\ Resolved /\ cli_pc = "done" /\ cli_cmd = "path_to_detail"
    /\ cli_arg = <<"b">>
    /\ cli_children[1].node.method = "GET" /\ cli_children[1].node.path = <<"a">>
    /\ api_matches = << >>
    /\ exit_status = "return"

\* the place of the line that announces the fetch
FetchingLine == CHOOSE k \in DOMAIN stdout : stdout[k].line = "fetching"

\* C14: with more than one match, --path-to-detail acts on the match at index 0
\* and prints every match, the alternates included, before it acts;
\* --path-to-id prints the id of every match.
C14_FirstMatchUsedAllReported ==
    /\ (Resolved /\ cli_cmd = "path_to_detail" /\ Len(api_matches) > 1)
       => /\ fetched = <<api_matches[1].id>>
          /\ \E k \in DOMAIN stdout : stdout[k].line = "fetching"
          /\ stdout[FetchingLine].id = api_matches[1].id
          /\ \A i \in DOMAIN api_matches :
                \E k \in 1..(FetchingLine - 1) :
                    /\ stdout[k].line = "match" /\ stdout[k].n = i
                    /\ stdout[k].id = api_matches[i].id
    /\ (Resolved /\ cli_cmd = "path_to_id" /\ Len(api_matches) > 1)
       => /\ fetched = << >>
          /\ \A i \in DOMAIN api_matches :
                stdout[i].line = "id" /\ stdout[i].id = api_matches[i].id

\* three endpoints match "a"; all three are printed and the first is fetched
C14_Witness ==
    /\ Resolved /\ cli_cmd = "path_to_detail" /\ cli_pc = "done"
    /\ Len(api_matches) = 3
    /\ fetched = <<"n1">>
    /\ stdout[2].line = "found_n" /\ stdout[2].n = 3
    /\ stdout[5].line = "match" /\ stdout[5].id = "n3"
    /\ stdout[6].line = "fetching"

\* the pre-order of the nodes that satisfy a test
SelectEntries(Test(_)) == SelectSeq(CliEntries, Test)

IsEndpointKind(e) == e.info.method # "" /\ e.info.id # ""

IsListed(e) == e.info.method # "" /\ e.full_path # << >>

\* an entry that always carries the name
NamedLine(e) ==
    MethodText(e.info.method) \o <<" ">> \o e.full_path \o <<" ", "[">>
    \o e.info.name \o <<"]">>

CountOf(seq, x) == Cardinality({i \in DOMAIN seq : seq[i] = x})

\* C15 as stated: extract_api_endpoints returns one entry for every node with a
\* method and an id, in tree pre-order, each carrying the node's name.
C15_Original ==
    Listed =>
        api_endpoints = [i \in DOMAIN SelectEntries(IsEndpointKind) |->
                            NamedLine(SelectEntries(IsEndpointKind)[i])]

\* C15 as amended: traverse_api_tree lists, in pre-order, every node that has a
\* method and a non-empty full path, with or without an id, and the entry
\* carries the name only when the name is non-empty and differs from the node's
\* own path; extract_api_endpoints returns these entries in ascending string
\* order, not in pre-order.
C15_ListAllSorted ==
    Listed =>
        LET listed == SelectEntries(IsListed)
            lines == [i \in DOMAIN listed |->
                        IF listed[i].info.name # << >>
                           /\ listed[i].info.name # listed[i].info.path
                        THEN NamedLine(listed[i])
                        ELSE MethodText(listed[i].info.method) \o <<" ">>
                             \o listed[i].full_path]
        IN /\ TraverseChildren(cli_children, << >>, << >>) = lines
           /\ Len(api_endpoints) = Len(lines)
           /\ \A i \in DOMAIN lines : CountOf(api_endpoints, lines[i]) = CountOf(lines, lines[i])
           /\ \A i, j \in DOMAIN api_endpoints :
                 i < j => ~TextLess(api_endpoints[j], api_endpoints[i])

\* the children "ab" and "a" of the group "a" are listed as "GET a/a [n]" and
\* then "GET a/ab": sorted, the reverse of their pre-order
C15_Witness ==
    /\ Listed
    /\ Len(cli_children[1].children) = 2
    /\ cli_children[1].children[1].node.path = <<"a", "b">>
    /\ cli_children[1].children[2].node.path = <<"a">>
    /\ api_endpoints = << <<"G", "E", "T", " ", "a", "/", "a", " ", "[", "n", "]">>,
                          <<"G", "E", "T", " ", "a", "/", "a", "b">> >>

\* the first filter, in the order filter_endpoints compiles them, that does not
\* compile
MalformedField ==
    IF cli_filters.query # NoPattern /\ re_error(cli_filters.query) THEN "query"
    ELSE IF cli_filters.path # NoPattern /\ re_error(cli_filters.path) THEN "path"
    ELSE IF cli_filters.name # NoPattern /\ re_error(cli_filters.name) THEN "name"
    ELSE "none"

\* C18: a malformed regular expression rejects the whole filter operation with
\* an error that names its field; the process does not crash, the fetched list is
\* unchanged, and the caller gets an outcome that differs from the empty list a
\* valid pattern without matches gives, so that main does not go on to report
\* "no matching endpoint".
C18_MalformedRegexDistinguishable ==
    (Listed /\ MalformedField # "none")
    => /\ \E k \in DOMAIN stdout :
             stdout[k].line = "regex_error" /\ stdout[k].id = MalformedField
       /\ api_endpoints = extract_api_endpoints(cli_children)
       /\ filtered_endpoints # << >>
       /\ \A k \in DOMAIN stdout : stdout[k].line # "no_match"

----------------------------------------------------------------------------
(* Claims about pagination *)

\* ceil(n / d) for d >= 1
Ceil(n, d) == CHOOSE k \in 0..n : k * d >= n /\ (k = 0 \/ (k - 1) * d < n)

\* C16: for n items, page >= 1 and page_size >= 1, _paginate_items returns
\* total_items = n and total_pages = ceil(n / page_size); for a page up to
\* total_pages the window is items[(page-1)*page_size .. min(page*page_size, n)),
\* and for a page past total_pages it is empty, with the same total_pages.
C16_PaginateWindow ==
    pg_pc = "done" =>
        LET n == Len(all_items)
            first == (page - 1) * page_size
            last == Min(page * page_size, n)
        IN /\ paginated.total_items = n
           /\ paginated.total_pages = Ceil(n, page_size)
           /\ page <= Ceil(n, page_size)
              => paginated.items = [i \in 1..(last - first) |-> all_items[first + i]]
           /\ page > Ceil(n, page_size) => paginated.items = << >>

\* five items, two to a page: page 3 holds the fifth item alone
C16_Witness ==
    /\ pg_pc = "done"
    /\ Len(all_items) = 5 /\ page_size = 2 /\ page = 3
    /\ paginated = [items |-> <<5>>, total_pages |-> 3, total_items |-> 5]

\* C17: page > total_pages holds only when the list is not empty and the page
\* lies past its last page; page 1 of an empty list satisfies
\* page <= total_pages and is reported as "no results", not as a page that does
\* not exist.
C17_PastEndDistinguishable ==
    pg_pc = "done" =>
        /\ page > paginated.total_pages
           => (all_items # << >> /\ (page - 1) * page_size >= Len(all_items))
        /\ (all_items = << >> /\ page = 1)
           => (page <= paginated.total_pages /\ pg_message = "no_results")

----------------------------------------------------------------------------
(* Claims about batch operations *)

OkItems == {i \in DOMAIN batch_items : batch_items[i] = "ok"}

\* C19: a batch is best-effort: every item is attempted exactly once whatever
\* happened to the items before it, successful + failed is the number of items,
\* successful counts the items whose own request succeeded, results holds one
\* entry for each item, and the effect of every successful item is applied.
C19_BatchBestEffort ==
    /\ \A i \in DOMAIN batch_items : batch_attempts[i] <= 1
    /\ (batch_pc = "reported" /\ batch_report.status \in {"completed", "failed"})
       => /\ \A i \in DOMAIN batch_items : batch_attempts[i] = 1
          /\ batch_result.successful + batch_result.failed = Len(batch_items)
          /\ batch_result.successful = Cardinality(OkItems)
          /\ Len(batch_result.results) = Len(batch_items)
          /\ \A i \in DOMAIN batch_items :
                /\ batch_result.results[i].item = i
                /\ batch_result.results[i].ok = (batch_items[i] = "ok")
          /\ batch_applied = OkItems

\* A succeeds, B fails, C succeeds: two successful, one failed, A and C applied
C19_Witness ==
    /\ batch_pc = "reported"
    /\ batch_items = <<"ok", "api_error", "ok">>
    /\ batch_result.successful = 2 /\ batch_result.failed = 1
    /\ batch_applied = {1, 3}
    /\ batch_report.status = "completed" /\ batch_report.warned = 1

----------------------------------------------------------------------------
(* Claims about single backend operations *)

FailureValues == {"[]", "False", "None"}

----------------------------------------------------------------------------
(* Claims about the WebSocket client *)

\* the messages handle_message was called with, in order
Handled == SubSeq(ws_script, 1, ws_nhandled)

\* the type field of a message is PING, whatever its case
IsPing(m) ==
    LET t == BeforeComma(m)
    IN [i \in DOMAIN t |-> Lower(t[i])] = <<"p", "i", "n", "g">>

IsLoginFrame(f) == f[1] = "login"

\* C21: every handled message whose type is PING (in any case) causes exactly
\* one "pong" to be passed to send, no other message causes a send, and no
\* message ends the listener loop: the loop ends only on a connection that
\* failed or was closed.
C21_PingAnsweredOnce ==
    /\ CountOf(ws_sent, Pong)
         = Cardinality({i \in DOMAIN Handled : IsPing(Handled[i])})
    /\ \A i \in DOMAIN ws_sent : IsLoginFrame(ws_sent[i]) \/ ws_sent[i] = Pong
    /\ Len(ws_sent) <= 1 + ws_nhandled
    /\ listen_pc = "done" => websocket # "open"

\* a lower-case ping and a truncated LOGS document were handled, one pong was
\* sent, and the listener goes on
C21_Witness ==
    /\ ws_nhandled = 2
    /\ \E i, j \in DOMAIN Handled :
         /\ Handled[i] = <<"p", "i", "n", "g", ",", "1">>
         /\ Handled[j] = <<"L", "O", "G", "S", ",", "[">>
    /\ CountOf(ws_sent, Pong) = 1
    /\ listen_pc = "listening"

\* C22: once the connection is established exactly one login message
\* login,<username or unauthorization>,<client id> has been sent, it is the
\* first frame sent and precedes the handling of any server message; while no
\* connection is established, and after a failed attempt, nothing is sent.
C22_LoginOncePerConnect ==
    /\ websocket = "None" => (ws_sent = << >> /\ ws_nhandled = 0)
    /\ websocket # "None" =>
         /\ ws_sent # << >>
         /\ ws_sent[1] = <<"login",
                           IF ws_username \in {NoUser, ""} THEN Placeholder
                           ELSE ws_username,
                           ClientId>>
         /\ Cardinality({i \in DOMAIN ws_sent : IsLoginFrame(ws_sent[i])}) = 1

\* a client with an empty username logged in with the placeholder and then
\* handled a message
C22_Witness ==
    /\ ws_username = ""
    /\ ws_nhandled >= 1
    /\ ws_sent[1] = <<"login", Placeholder, ClientId>>

\* the session's headers as the constructor left them
ConstructedSession ==
    IF ccreds THEN LoginStoreToken(NoHeaders, cloginresp) ELSE NoHeaders

\* C23: cancelling the listener, closing the socket and a closure by the server
\* leave the HTTP client's state (session headers, login count, calls made)
\* unchanged, and a call issued after the socket was closed sends one request
\* with the token the session got at construction.
C23_CloseLeavesSession ==
    /\ [][(MainCancel \/ ListenOnlyEnd \/ MainClose \/ ServerClose \/ WsListenEnd)
          => UNCHANGED clientVars]_vars
    /\ [](cpc = "ready" =>
            /\ csession = ConstructedSession
            /\ main_pc = "finished" /\ ncalls = 2 =>
                 /\ Len(lastCall.sent) = 1
                 /\ lastCall.sent[1].token = HeaderOf(ConstructedSession, MagicToken)
                 /\ lastCall.ret = call_api_return(lastCall.outcome))

\* the listener was cancelled, the socket closed, and the fallback call went
\* out with the session's token
C23_Witness ==
    /\ main_pc = "finished" /\ ncalls = 2
    /\ listen_pc = "cancelled" /\ websocket = "closed"
    /\ lastCall.sent[1].token = "test-token-123"

\* C24: while the call issued by call_api is in flight, a message that has
\* arrived can be handled by the listener before the call returns.
C24_ListenerRunsDuringCall ==
    (http_inflight /\ listen_pc = "listening" /\ ws_inbox # << >>)
    => ENABLED HandleMessage

\* C27: connected is true only while a socket is open and listened to: once the
\* listener has ended (closure, error, cancellation) or close() has returned,
\* connected is false.
C27_ConnectedOnlyWhileListening ==
    (listen_pc \in {"done", "cancelled"}
     \/ main_pc \in {"fallback", "fallback_call_api", "finished"})
    => ~connected

----------------------------------------------------------------------------
(* Claims about the resource manager CLI *)

\* the command line names --create-api with its five values and neither
\* --list-tree nor --list-groups
CreateApiRequested ==
    /\ Len(rm_argv) >= 6 /\ rm_argv[1] = "--create-api"
    /\ \A i \in DOMAIN rm_argv : rm_argv[i] \notin {"--list-tree", "--list-groups"}

\* C25: a run with --create-api GID NAME METH PATH SCRIPT, and without
\* --list-tree and --list-groups, invokes the manager's create-endpoint
\* operation with exactly those five values and no other operation.
C25_CreateApiDispatched ==
    (rm_pc = "done" /\ CreateApiRequested)
    => rm_call = [op |-> "create_api_file", args |-> SubSeq(rm_argv, 2, 6)]

----------------------------------------------------------------------------
(* Claims about browsing a listing *)

\* every page from 1 to total_pages was requested
BrowsedAll == br_op # "off" /\ br_next > 1 /\ br_next > br_total_pages

\* C26: for a fixed page_size >= 1 and limit >= 1, the pages 1..total_pages of
\* a listing display every item of the full list exactly once: what they
\* display, put together in page order, is the full list.
C26_BrowsingShowsAll == BrowsedAll => br_displayed = br_items

----------------------------------------------------------------------------
(* Claims about the server's shutdown *)

\* how often a manager method was invoked since the process started
Invocations(method) == Cardinality({i \in DOMAIN sd_calls : sd_calls[i].call = method})

\* C28: on every exit path of one process (signal handler, KeyboardInterrupt,
\* server error, normal return with the atexit hook) stop_sync and close are
\* each invoked at most once.
C28_CleanupAtMostOnce ==
    /\ Invocations("stop_sync") <= 1
    /\ Invocations("close") <= 1

\* C29: a run of _cleanup_resources attempts stop_sync before close, attempts
\* close whether or not stop_sync raised, lets no exception out, and attempts
\* neither without a context.
C29_CleanupStepsIsolated ==
    (sd_pc = "exited" \/ (sd_pc = "exiting" /\ sd_path # "return")) =>
        /\ ~sd_escaped
        /\ ~sd_context => sd_last = << >>
        /\ sd_context =>
             /\ sd_last = SelectSeq(<<[call |-> "stop_sync",
                                       raised |-> sd_ws_manager = "raises"],
                                      [call |-> "close",
                                       raised |-> sd_resource_manager = "raises"]>>,
                                    LAMBDA a : IF a.call = "stop_sync"
                                               THEN HasMethod(sd_ws_manager)
                                               ELSE HasMethod(sd_resource_manager))
             /\ HasMethod(sd_resource_manager)
                => sd_last[Len(sd_last)].call = "close"

\* stop_sync raised and close was attempted after it
C29_Witness ==
    /\ sd_context /\ sd_ws_manager = "raises" /\ sd_resource_manager = "ok"
    /\ sd_pc = "exiting" /\ sd_path = "server_error"
    /\ Len(sd_last) = 2
    /\ sd_last[1] = [call |-> "stop_sync", raised |-> TRUE]
    /\ sd_last[2] = [call |-> "close", raised |-> FALSE]

----------------------------------------------------------------------------
(* Claims about the class client's base URL *)

\* C30: for a non-empty base_url the client's base URL is the input without
\* its trailing slashes when that starts with http:// or https://, and
\* otherwise "http://" followed by the input without its trailing slashes,
\* whatever the first characters of the host are.
C30_BaseUrlKeepsHost ==
    (url_pc = "ready" /\ url_input # << >>) =>
        LET stripped == RStrip(url_input)
        IN url_base = IF StartsWith(stripped, HttpPrefix)
                         \/ StartsWith(stripped, HttpsPrefix)
                      THEN stripped
                      ELSE HttpPrefix \o stripped

====
